---- MODULE Spec2Model ----
(***************************************************************************)
(* Circuit model of the QFR QuantumComputation class: registers, layout    *)
(* maps, ancillary/garbage bitsets, the operation list, the circuit edits  *)
(* (addQubitRegister, addAncillaryRegister, addQubit, addAncillaryQubit,   *)
(* removeQubit, stripIdleQubits) and the importers.                        *)
(***************************************************************************)
EXTENDS Integers, Sequences, FiniteSets, TLC

VARIABLES nqubits, nancillae, nclassics, qregs, cregs, ancregs,
          initialLayout, outputPermutation, ancillary, garbage, ops,
          mode,     \* position of the program: "idle" between calls, the
                    \* importer at work, or how the process ended
          varMap,   \* importTFC's local map from variable names to indices
          last,     \* the last call made to the circuit and how it ended
          ncalls,   \* edits made since the circuit was constructed or reset
          run       \* the computation at work outside the circuit's fields:
                    \* its inputs, its locals and its position

vars == <<nqubits, nancillae, nclassics, qregs, cregs, ancregs,
          initialLayout, outputPermutation, ancillary, garbage, ops,
          mode, varMap, last, ncalls, run>>
\* everything but the computation at work
object == <<nqubits, nancillae, nclassics, qregs, cregs, ancregs,
            initialLayout, outputPermutation, ancillary, garbage, ops,
            mode, varMap, last, ncalls>>

-----------------------------------------------------------------------------
(* Bounds of the model *)

\* qc::MAX_QUBITS (= dd::MAXN), the size of the bitsets; scaled down
MAX_QUBITS == 3
MAXN == MAX_QUBITS
\* largest physical / output index handed to an edit
MaxPhys == 2
\* largest register size handed to addQubitRegister / addAncillaryRegister
\* or declared in an imported file
MaxReg == 2
\* edits explored on a circuit built by edits alone / after an import
MaxEdits == 4
MaxEditsAfterImport == 1
\* operations an imported file holds at most
MaxOps == 1
\* largest index written in a register argument q[i] of an OpenQASM file
MaxOffset == 1
\* statements read from an imported file at most (the closing one apart)
MaxStmts == 4
\* largest key and value of the maps handed to the permutation adapter
MaxKey == 2

DEFAULT_QREG == "q"
DEFAULT_ANCREG == "anc"

\* unsigned short arithmetic
U16(x) == x % 65536

-----------------------------------------------------------------------------
(* std::map and std::string helpers *)

EmptyMap == <<>>

\* std::map::insert: an existing key keeps its value
MapInsert(m, k, v) == IF k \in DOMAIN m THEN m ELSE m @@ (k :> v)
\* m[k] = v
MapSet(m, k, v) == (k :> v) @@ m
MapErase(m, k) == [x \in DOMAIN m \ {k} |-> m[x]]

\* character codes of the characters register names are made of
CharCode(ch) ==
    CASE ch = "0" -> 48 [] ch = "1" -> 49 [] ch = "2" -> 50 [] ch = "3" -> 51
      [] ch = "4" -> 52 [] ch = "5" -> 53 [] ch = "6" -> 54 [] ch = "7" -> 55
      [] ch = "8" -> 56 [] ch = "9" -> 57 [] ch = "_" -> 95
      [] ch = "a" -> 97 [] ch = "b" -> 98 [] ch = "c" -> 99 [] ch = "d" -> 100
      [] ch = "h" -> 104
      [] ch = "l" -> 108 [] ch = "n" -> 110 [] ch = "q" -> 113 [] ch = "r" -> 114

RECURSIVE StrLess(_, _)
\* std::less<std::string>: lexicographic order
StrLess(a, b) ==
    IF Len(b) = 0 THEN FALSE
    ELSE IF Len(a) = 0 THEN TRUE
    ELSE IF CharCode(SubSeq(a, 1, 1)) # CharCode(SubSeq(b, 1, 1))
         THEN CharCode(SubSeq(a, 1, 1)) < CharCode(SubSeq(b, 1, 1))
         ELSE StrLess(SubSeq(a, 2, Len(a)), SubSeq(b, 2, Len(b)))

RECURSIVE SortedNames(_)
\* iteration order of a registerMap (std::map<std::string, ...>)
SortedNames(S) ==
    IF S = {} THEN <<>>
    ELSE LET From(m) == <<m>> \o SortedNames(S \ {m})
         IN From(CHOOSE x \in S : \A y \in S \ {x} : StrLess(x, y))

RECURSIVE SortedKeys(_)
\* iteration order of a permutationMap (std::map<unsigned short, ...>)
SortedKeys(S) ==
    IF S = {} THEN <<>>
    ELSE LET From(m) == <<m>> \o SortedKeys(S \ {m})
         IN From(CHOOSE x \in S : \A y \in S : x <= y)

EndsWith(s, suf) ==
    Len(s) >= Len(suf) /\ SubSeq(s, Len(s) - Len(suf) + 1, Len(s)) = suf

-----------------------------------------------------------------------------
(* The circuit as a value *)

Circuit ==
    [nqubits |-> nqubits, nancillae |-> nancillae, nclassics |-> nclassics,
     qregs |-> qregs, cregs |-> cregs, ancregs |-> ancregs,
     initialLayout |-> initialLayout, outputPermutation |-> outputPermutation,
     ancillary |-> ancillary, garbage |-> garbage, ops |-> ops]

\* reset(): the empty circuit
ResetCircuit ==
    [nqubits |-> 0, nancillae |-> 0, nclassics |-> 0,
     qregs |-> EmptyMap, cregs |-> EmptyMap, ancregs |-> EmptyMap,
     initialLayout |-> EmptyMap, outputPermutation |-> EmptyMap,
     ancillary |-> {}, garbage |-> {}, ops |-> <<>>]

Install(c) ==
    /\ nqubits' = c.nqubits
    /\ nancillae' = c.nancillae
    /\ nclassics' = c.nclassics
    /\ qregs' = c.qregs
    /\ cregs' = c.cregs
    /\ ancregs' = c.ancregs
    /\ initialLayout' = c.initialLayout
    /\ outputPermutation' = c.outputPermutation
    /\ ancillary' = c.ancillary
    /\ garbage' = c.garbage
    /\ ops' = c.ops
    /\ UNCHANGED run

\* outcome of a call: the circuit it leaves and how it ended
Outcome(c, status, ret) == [c |-> c, status |-> status, ret |-> ret]

-----------------------------------------------------------------------------
(* Operations (Operation.hpp / StandardOperation / CompoundOperation) *)

\* a control: qubit and polarity
Control(q, neg) == [qubit |-> q, neg |-> neg]
PosControls(qs) == [i \in 1..Len(qs) |-> Control(qs[i], FALSE)]

StandardOperation(nq, controls, targets, gate) ==
    [type |-> "Standard", gate |-> gate, nqubits |-> nq,
     controls |-> controls, targets |-> targets, sub |-> <<>>]

CompoundOperation(nq, children) ==
    [type |-> "Compound", gate |-> "Compound", nqubits |-> nq,
     controls |-> <<>>, targets |-> <<>>, sub |-> children]

SeqRange(s) == {s[i] : i \in 1..Len(s)}
ControlQubits(op) == {op.controls[i].qubit : i \in 1..Len(op.controls)}
TargetQubits(op) == SeqRange(op.targets)

\* the standard operations an entry of ops consists of
Leaves(op) == IF op.type = "Compound" THEN SeqRange(op.sub) ELSE {op}

\* Operation::actsOn(i): i is a target or a control (of a child, for Compound)
ActsOn(op, i) ==
    \E o \in Leaves(op) : i \in TargetQubits(o) \/ i \in ControlQubits(o)

\* Operation::setNqubits(nq)
SetNqubits(op, nq) ==
    [op EXCEPT !.nqubits = nq,
               !.sub = [i \in 1..Len(op.sub) |-> [op.sub[i] EXCEPT !.nqubits = nq]]]

\* for (auto& op: ops) op->setNqubits(nq)
BroadcastNqubits(opseq, nq) == [i \in 1..Len(opseq) |-> SetNqubits(opseq[i], nq)]

\* QuantumComputation::isIdleQubit
isIdleQubit(c, p) == \A i \in 1..Len(c.ops) : ~ActsOn(c.ops[i], p)

-----------------------------------------------------------------------------
(* Register queries *)

InRange(reg, p) == reg[1] <= p /\ p < reg[1] + reg[2]

\* first register in iteration order that holds p, qregs before ancregs;
\* "" stands for the exception of getQubitRegister
getQubitRegister(c, p) ==
    LET First(names, hits) ==
            IF hits = {} THEN ""
            ELSE names[CHOOSE i \in hits : \A j \in hits : i <= j]
        Among(regs, names) ==
            First(names, {i \in 1..Len(names) : InRange(regs[names[i]], p)})
        OrElse(found, other) == IF found # "" THEN found ELSE other
    IN OrElse(Among(c.qregs, SortedNames(DOMAIN c.qregs)),
              Among(c.ancregs, SortedNames(DOMAIN c.ancregs)))

\* <<name, index>>; the index is taken in qregs when the name is a key there
getQubitRegisterAndIndex(c, p) ==
    LET IndexIn(name) ==
            IF name \in DOMAIN c.qregs
            THEN <<name, U16(p - c.qregs[name][1])>>
            ELSE IF name \in DOMAIN c.ancregs
            THEN <<name, U16(p - c.ancregs[name][1])>>
            ELSE <<name, 0>>
    IN IndexIn(getQubitRegister(c, p))

physicalQubitIsAncillary(c, p) ==
    \E n \in DOMAIN c.ancregs : InRange(c.ancregs[n], p)

-----------------------------------------------------------------------------
(* Bitset loops of removeQubit and addQubit *)

RECURSIVE ShiftDownLoop(_, _, _)
\* for (i = from; i < total; ++i) bits[i] = bits[i+1];
ShiftDownLoop(bits, i, total) ==
    IF i < total
    THEN ShiftDownLoop(IF (i + 1) \in bits THEN bits \cup {i} ELSE bits \ {i},
                       i + 1, total)
    ELSE bits

\* removeQubit, lines 892-900: shift down from the removed index, clear the tail
ShiftDown(bits, logical, total) ==
    IF total < MAX_QUBITS
    THEN ShiftDownLoop(bits, logical, total) \ {total}
    ELSE bits

RECURSIVE ShiftUpLoop(_, _, _)
\* for (i = top; i > logical; --i) bits[i] = bits[i-1];
ShiftUpLoop(bits, i, logical) ==
    IF i > logical
    THEN ShiftUpLoop(IF (i - 1) \in bits THEN bits \cup {i} ELSE bits \ {i},
                     i - 1, logical)
    ELSE bits

\* addQubit, lines 1039-1045: shift up above the new index, clear the new index
ShiftUp(bits, logical, total) ==
    ShiftUpLoop(bits, U16(total - 1), logical) \ {logical}

-----------------------------------------------------------------------------
(* removeQubit *)

\* the register made shorter at its end, whichever index is removed
RemoveFromBack(regs, name, idx) ==
    MapSet(regs, name, <<regs[name][1], U16(regs[name][2] - 1)>>)

\* the register edit of removeQubit on one register map (lines 784-817 for
\* ancregs, 821-854 for qregs): shrink from the front, shrink from the back,
\* erase, or split into name_l and name_h; regs[name] default-constructs a
\* missing entry
RemoveFromRegister(regs, name, idx) ==
    LET Edit(r0, reg) ==
            IF idx = 0
            THEN IF reg[2] = 1
                 THEN MapErase(r0, name)
                 ELSE MapSet(r0, name, <<U16(reg[1] + 1), U16(reg[2] - 1)>>)
            ELSE IF idx = reg[2] - 1
                 THEN MapSet(r0, name, <<reg[1], U16(reg[2] - 1)>>)
                 ELSE MapInsert(
                        MapInsert(MapErase(r0, name),
                                  name \o "_l", <<reg[1], idx>>),
                        name \o "_h",
                        <<U16(reg[1] + idx + 1), U16(reg[2] - idx - 1)>>)
        Defaulted(r0) == Edit(r0, r0[name])
    IN Defaulted(MapInsert(regs, name, <<0, 0>>))

\* the physical index removeQubit picks: the last key mapped to the logical
\* index, 0 when there is none (lines 760-764)
FindPhysical(layout, logical) ==
    LET LastOrZero(hits) ==
            IF hits = {} THEN 0 ELSE CHOOSE p \in hits : \A r \in hits : r <= p
    IN LastOrZero({p \in DOMAIN layout : layout[p] = logical})

\* lines 779-857: the register and the count of the kind the qubit is of
RemoveRegisterEntry(c, physical, reg) ==
    IF physicalQubitIsAncillary(c, physical)
    THEN [c EXCEPT !.ancregs = RemoveFromRegister(c.ancregs, reg[1], reg[2]),
                   !.nancillae = U16(c.nancillae - 1)]
    ELSE [c EXCEPT !.qregs = RemoveFromRegister(c.qregs, reg[1], reg[2]),
                   !.nqubits = U16(c.nqubits - 1)]

\* QuantumComputation::removeQubit; ret = <<physical, output>> (-1: none)
removeQubit(c, logical) ==
    LET OutputOf(physical) ==
            IF physical \in DOMAIN c.outputPermutation
            THEN c.outputPermutation[physical] ELSE -1
        \* lines 865-902: layouts, operations and bitsets after the register edit
        Layouts(c1, physical, total) ==
            Outcome([c1 EXCEPT
                       !.initialLayout = MapErase(c.initialLayout, physical),
                       !.outputPermutation = MapErase(c.outputPermutation, physical),
                       !.ops = BroadcastNqubits(c.ops, total),
                       !.ancillary = ShiftDown(c.ancillary, logical, total),
                       !.garbage = ShiftDown(c.garbage, logical, total)],
                    "ok", <<physical, OutputOf(physical)>>)
        Edited(c1, physical) == Layouts(c1, physical, c1.nqubits + c1.nancillae)
        In(physical, reg) ==
            IF reg[1] = ""
            THEN Outcome(c, "throw", <<>>)
            ELSE Edited(RemoveRegisterEntry(c, physical, reg), physical)
        At(physical) == In(physical, getQubitRegisterAndIndex(c, physical))
    IN At(FindPhysical(c.initialLayout, logical))

-----------------------------------------------------------------------------
(* consolidateRegister *)

\* one pass of the for loop: the first register in iteration order whose name
\* ends in _l is examined, fused with its _h part when the two are contiguous
ConsolidatePass(regs) ==
    LET Pair(regname, highname, targetname) ==
            IF highname \in DOMAIN regs
               /\ regs[regname][1] + regs[regname][2] = regs[highname][1]
            THEN [regs |-> MapErase(MapErase(
                              MapInsert(regs, targetname,
                                        <<regs[regname][1],
                                          U16(regs[regname][2] + regs[highname][2])>>),
                              regname), highname),
                  finished |-> FALSE]
            ELSE [regs |-> regs, finished |-> TRUE]
        Low(regname) ==
            Pair(regname, SubSeq(regname, 1, Len(regname) - 1) \o "h",
                 SubSeq(regname, 1, Len(regname) - 2))
        At(names, lows) ==
            IF lows = {} THEN [regs |-> regs, finished |-> TRUE]
            ELSE Low(names[CHOOSE i \in lows : \A j \in lows : i <= j])
        Names(names) ==
            At(names, {i \in 1..Len(names) :
                          Len(names[i]) > 2 /\ EndsWith(names[i], "_l")})
    IN Names(SortedNames(DOMAIN regs))

RECURSIVE ConsolidateLoop(_)
\* while (!finished)
ConsolidateLoop(regs) ==
    LET Continue(r) == IF r.finished THEN r.regs ELSE ConsolidateLoop(r.regs)
    IN Continue(ConsolidatePass(regs))

\* QuantumComputation::consolidateRegister. On an empty map the for loop has
\* no iteration and never sets finished: the while loop does not end (hang),
\* unless the build drops the side-effect-free loop (elided)
consolidateRegister(regs, elided) ==
    IF DOMAIN regs = {}
    THEN [regs |-> regs, hang |-> ~elided]
    ELSE [regs |-> ConsolidateLoop(regs), hang |-> FALSE]

-----------------------------------------------------------------------------
(* addAncillaryQubit / addQubit *)

\* index in iteration order of the first register the physical qubit can be
\* fused to (0: none), lines 917-933 and 992-1014
FusionIndex(regs, names, p) ==
    LET FirstOrZero(hits) ==
            IF hits = {} THEN 0 ELSE CHOOSE i \in hits : \A j \in hits : i <= j
    IN FirstOrZero({i \in 1..Len(names) :
                       \/ regs[names[i]][1] = p + 1
                       \/ regs[names[i]][1] + regs[names[i]][2] = p})

\* the fused register: extended at its start (1st case) or at its end
FuseInto(reg, p) ==
    IF reg[1] = p + 1 THEN <<U16(reg[1] - 1), U16(reg[2] + 1)>>
    ELSE <<reg[1], U16(reg[2] + 1)>>

\* the register map after the fusion loop
FusedRegisters(regs, names, f, p) ==
    IF f = 0 THEN regs
    ELSE MapSet(regs, names[f], FuseInto(regs[names[f]], p))

\* lines 935-940 and 1018-1023: a register of its own for a qubit not fused
NewRegister(regs, f, p, default) ==
    IF DOMAIN regs = {}
    THEN MapInsert(regs, default, <<p, 1>>)
    ELSE IF f = 0
         THEN MapInsert(regs, default \o "_" \o ToString(p), <<p, 1>>)
         ELSE regs

\* QuantumComputation::addAncillaryQubit
addAncillaryQubit(c, p, o) ==
    LET \* lines 947-974: the ancillary bit, the layouts and the operations
        Installed(c1, logical) ==
            IF logical >= MAX_QUBITS
            THEN Outcome(c1, "throw", <<>>)   \* std::bitset::set: out_of_range
            ELSE Outcome(
                   [c1 EXCEPT
                      !.ancillary = c.ancillary \cup {logical},
                      !.initialLayout = MapInsert(c.initialLayout, p, logical),
                      !.outputPermutation =
                          IF o >= 0 THEN MapInsert(c.outputPermutation, p, o)
                          ELSE c.outputPermutation,
                      !.ops = BroadcastNqubits(c.ops, c1.nqubits + c1.nancillae)],
                   "ok", <<>>)
        Registered(regs) ==
            Installed([c EXCEPT !.ancregs = regs,
                                !.nancillae = U16(c.nancillae + 1)],
                      U16(c.nqubits + c.nancillae))
        Fused(names, f) ==
            Registered(NewRegister(FusedRegisters(c.ancregs, names, f, p),
                                   f, p, DEFAULT_ANCREG))
        Named(names) == Fused(names, FusionIndex(c.ancregs, names, p))
    IN IF p \in DOMAIN c.initialLayout \/ p \in DOMAIN c.outputPermutation
       THEN Outcome(c, "throw", <<>>)
       ELSE Named(SortedNames(DOMAIN c.ancregs))

\* lines 1004-1011: a fusion at the end of a register that ends where the
\* ancillary registers start moves every ancillary register up by one
ShiftedAncregs(c, names, f, p) ==
    IF (f # 0 /\ c.qregs[names[f]][1] # p + 1) /\ p = c.nqubits
    THEN [n \in DOMAIN c.ancregs |->
            <<U16(c.ancregs[n][1] + 1), c.ancregs[n][2]>>]
    ELSE c.ancregs

\* QuantumComputation::addQubit
addQubit(c, logical, p, o, elided) ==
    LET \* lines 1039-1045: the bitset loops, top = nqubits + nancillae - 1
        Bits(c1, total, top) ==
            IF top > logical /\ top >= MAX_QUBITS
            THEN Outcome(c1, "undefined", <<>>)   \* bitset operator[] out of range
            ELSE IF logical >= MAX_QUBITS
            THEN Outcome(c1, "throw", <<>>)        \* std::bitset::reset: out_of_range
            ELSE Outcome([c1 EXCEPT
                            !.ancillary = ShiftUp(c.ancillary, logical, total),
                            !.garbage = ShiftUp(c.garbage, logical, total)],
                         "ok", <<>>)
        \* lines 1025-1036: the count, the layouts and the operations
        Installed(regs, anc, nq, total) ==
            Bits([c EXCEPT
                    !.qregs = regs, !.ancregs = anc, !.nqubits = nq,
                    !.initialLayout = MapInsert(c.initialLayout, p, logical),
                    !.outputPermutation =
                        IF o >= 0 THEN MapInsert(c.outputPermutation, p, o)
                        ELSE c.outputPermutation,
                    !.ops = BroadcastNqubits(c.ops, total)],
                 total, U16(total - 1))
        Consolidated(f, anc, cons) ==
            IF cons.hang THEN Outcome(c, "hang", <<>>)
            ELSE Installed(NewRegister(cons.regs, f, p, DEFAULT_QREG), anc,
                           U16(c.nqubits + 1), U16(c.nqubits + 1) + c.nancillae)
        Fused(names, f) ==
            Consolidated(f, ShiftedAncregs(c, names, f, p),
                         consolidateRegister(
                             FusedRegisters(c.qregs, names, f, p), elided))
        Named(names) == Fused(names, FusionIndex(c.qregs, names, p))
    IN IF \/ p \in DOMAIN c.initialLayout \/ p \in DOMAIN c.outputPermutation
          \/ logical > c.nqubits
       THEN Outcome(c, "exit", <<>>)
       ELSE Named(SortedNames(DOMAIN c.qregs))

-----------------------------------------------------------------------------
(* addQubitRegister / addAncillaryRegister *)

RECURSIVE InsertIdentity(_, _, _)
\* for (i = 0; i < nq; ++i) layout.insert({first + i, first + i})
InsertIdentity(layout, first, nq) ==
    IF nq = 0 THEN layout
    ELSE InsertIdentity(MapInsert(layout, U16(first), U16(first)), first + 1, nq - 1)

\* an existing register grows by nq, a new one starts at first
ExtendedRegisters(regs, name, first, nq) ==
    IF name \in DOMAIN regs
    THEN MapSet(regs, name, <<regs[name][1], U16(regs[name][2] + nq)>>)
    ELSE MapInsert(regs, name, <<first, nq>>)

\* QuantumComputation::addQubitRegister. assertsOn: the build keeps assert()
addQubitRegister(c, nq, name, assertsOn) ==
    LET \* lines 697-708, c1 = the circuit with the register entered
        Entered(c1) ==
            IF c.nancillae # 0 /\ assertsOn
            THEN Outcome(c1, "abort", <<>>)   \* assert(nancillae == 0) fails
            ELSE Outcome(
                   [c1 EXCEPT
                      !.initialLayout = InsertIdentity(c.initialLayout, c.nqubits, nq),
                      !.outputPermutation =
                          InsertIdentity(c.outputPermutation, c.nqubits, nq),
                      !.nqubits = U16(c.nqubits + nq),
                      !.ops = BroadcastNqubits(c.ops,
                                               U16(c.nqubits + nq) + c.nancillae)],
                   "ok", <<>>)
    IN IF c.nqubits + c.nancillae + nq > MAXN
       THEN Outcome(c, "throw", <<>>)
       ELSE IF name \in DOMAIN c.qregs
               /\ c.qregs[name][1] + c.qregs[name][2] # c.nqubits + c.nancillae
       THEN Outcome(c, "throw", <<>>)
       ELSE Entered([c EXCEPT !.qregs =
                                 ExtendedRegisters(c.qregs, name, c.nqubits, nq)])

\* QuantumComputation::addAncillaryRegister
addAncillaryRegister(c, nq, name) ==
    LET At(totalqubits) ==
            IF c.nqubits + c.nancillae + nq > MAXN
            THEN Outcome(c, "throw", <<>>)
            ELSE IF name \in DOMAIN c.ancregs
                    /\ c.ancregs[name][1] + c.ancregs[name][2] # totalqubits
            THEN Outcome(c, "throw", <<>>)
            ELSE Outcome(
                   [c EXCEPT
                      !.ancregs = ExtendedRegisters(c.ancregs, name, totalqubits, nq),
                      !.initialLayout = InsertIdentity(c.initialLayout, totalqubits, nq),
                      !.outputPermutation =
                          InsertIdentity(c.outputPermutation, totalqubits, nq),
                      !.ancillary =
                          c.ancillary \cup {totalqubits + i : i \in 0..(nq - 1)},
                      !.nancillae = U16(c.nancillae + nq),
                      !.ops = BroadcastNqubits(c.ops,
                                               c.nqubits + U16(c.nancillae + nq))],
                   "ok", <<>>)
    IN At(U16(c.nqubits + c.nancillae))

-----------------------------------------------------------------------------
(* stripIdleQubits *)

\* a strip that leaves the logical indices as they are
KeepIndices(layout, logical) == layout

\* for (auto& q: layout) if (q.second > logical) q.second--;
Renumber(layout, logical) ==
    [p \in DOMAIN layout |-> IF layout[p] > logical THEN layout[p] - 1 ELSE layout[p]]

\* lines 1733-1754: both layouts renumbered when the removed index was not
\* the topmost one
RenumberAbove(c, logical) ==
    IF logical < c.nqubits + c.nancillae
    THEN [c EXCEPT !.initialLayout = Renumber(c.initialLayout, logical),
                   !.outputPermutation = Renumber(c.outputPermutation, logical)]
    ELSE c

RECURSIVE StripLoop(_, _, _, _)
\* the loop over the copied layout, keys[1..k] still to visit in descending
\* order (k down to 1)
StripLoop(c, keys, k, force) ==
    LET Removed(logical, r) ==
            IF r.status # "ok" THEN Outcome(r.c, r.status, <<>>)
            ELSE StripLoop(RenumberAbove(r.c, logical), keys, k - 1, force)
        Remove(logical) == Removed(logical, removeQubit(c, logical))
        \* one iteration, p = the physical qubit visited
        Visit(p) ==
            IF ~isIdleQubit(c, p) THEN StripLoop(c, keys, k - 1, force)
            ELSE IF p \in DOMAIN c.outputPermutation /\ ~force
                    /\ c.outputPermutation[p] >= 0
            THEN StripLoop(c, keys, k - 1, force)
            ELSE IF p \notin DOMAIN c.initialLayout
            THEN Outcome(c, "throw", <<>>)     \* initialLayout.at: out_of_range
            ELSE Remove(c.initialLayout[p])
    IN IF k = 0 THEN Outcome(c, "ok", <<>>) ELSE Visit(keys[k])

\* QuantumComputation::stripIdleQubits
stripIdleQubits(c, force) ==
    LET \* lines 1762-1764: for (auto& op: ops) op->setNqubits(...)
        Finished(r) ==
            IF r.status # "ok" THEN r
            ELSE Outcome([r.c EXCEPT !.ops = BroadcastNqubits(
                                                r.c.ops, r.c.nqubits + r.c.nancillae)],
                         "ok", <<>>)
    IN Finished(StripLoop(c, SortedKeys(DOMAIN c.initialLayout),
                          Cardinality(DOMAIN c.initialLayout), force))

-----------------------------------------------------------------------------
(* OpenQASM import: the statements of importOpenQASM and Parser::Gate *)

\* emplace_back
Emplace(c, op) == [c EXCEPT !.ops = Append(c.ops, op)]

\* qreg s[n];
QasmQreg(c, s, n) ==
    Outcome([c EXCEPT !.qregs = MapSet(c.qregs, s, <<c.nqubits, n>>),
                      !.nqubits = U16(c.nqubits + n),
                      !.ops = BroadcastNqubits(c.ops, U16(c.nqubits + n))],
            "ok", <<>>)

\* Parser::ArgumentQreg: <<first, size>> of "s" (offset < 0) or "s[offset]";
\* <<>> stands for the parser error on an undeclared register
ArgumentQreg(c, s, offset) ==
    IF s \notin DOMAIN c.qregs THEN <<>>
    ELSE IF offset >= 0 THEN <<U16(c.qregs[s][1] + offset), 1>>
    ELSE c.qregs[s]

\* Parser::error in place of an operation
ParserError == [type |-> "Error"]

\* Parser::Gate, ugate branch
GateU(c, target) ==
    IF target[2] = 1
    THEN StandardOperation(c.nqubits, <<>>, <<target[1]>>, "U3")
    ELSE CompoundOperation(c.nqubits,
           [i \in 1..target[2] |->
              StandardOperation(c.nqubits, <<>>, <<target[1] + i - 1>>, "U3")])

\* the validity check of the cxgate branch (lines 368-376)
CXOverlap(control, target) ==
    \E i \in 0..(control[2] - 1), j \in 0..(target[2] - 1) :
        control[1] + i = target[1] + j

CXOp(nq, ctl, tgt) == StandardOperation(nq, PosControls(<<ctl>>), <<tgt>>, "X")

\* Parser::Gate, cxgate branch; ParserError stands for the parser error
GateCX(c, control, target) ==
    IF CXOverlap(control, target) THEN ParserError
    ELSE IF control[2] = 1 /\ target[2] = 1
    THEN CXOp(c.nqubits, control[1], target[1])
    ELSE IF control[2] = target[2]
    THEN CompoundOperation(c.nqubits,
           [i \in 1..target[2] |->
              CXOp(c.nqubits, control[1] + i - 1, target[1] + i - 1)])
    ELSE IF control[2] = 1
    THEN CompoundOperation(c.nqubits,
           [i \in 1..target[2] |-> CXOp(c.nqubits, control[1], target[1] + i - 1)])
    ELSE IF target[2] = 1
    THEN CompoundOperation(c.nqubits,
           [i \in 1..control[2] |-> CXOp(c.nqubits, control[1] + i - 1, target[1])])
    ELSE ParserError

\* Parser::Gate, swap branch
GateSwap(c, first, second) ==
    IF first[2] = 1 /\ second[2] = 1 /\ first[1] # second[1]
    THEN StandardOperation(c.nqubits, <<>>, <<first[1], second[1]>>, "SWAP")
    ELSE ParserError

\* ops.emplace_back(p.Qop()) for a gate statement
QasmGate(c, op) ==
    IF op.type = "Error" THEN Outcome(c, "throw", <<>>)
    ELSE Outcome(Emplace(c, op), "ok", <<>>)

\* setLogicalQubitGarbage
setLogicalQubitGarbage(c, logical) == [c EXCEPT !.garbage = c.garbage \cup {logical}]

RECURSIVE InsertList(_, _, _, _)
\* for (logical = k; logical < n; ++logical) map.insert({list[logical], logical}),
\* as far as the list goes
InsertList(map, list, k, n) ==
    IF k >= n \/ k >= Len(list) THEN map
    ELSE InsertList(MapInsert(map, list[k + 1], k), list, k + 1, n)

\* the logical qubit l is a value of the output permutation
IsOutput(c, l) == \E q \in DOMAIN c.outputPermutation : c.outputPermutation[q] = l

RECURSIVE MarkGarbage(_, _, _)
\* lines 2016-2027: every logical qubit of the initial layout that is no value
\* of the output permutation is set garbage; std::bitset::set throws on an
\* index beyond the bitset
MarkGarbage(c, keys, k) ==
    LET One(l) ==
            IF IsOutput(c, l) THEN MarkGarbage(c, keys, k + 1)
            ELSE IF l >= MAX_QUBITS THEN [c |-> c, thrown |-> TRUE]
            ELSE MarkGarbage(setLogicalQubitGarbage(c, l), keys, k + 1)
    IN IF k > Len(keys) THEN [c |-> c, thrown |-> FALSE]
       ELSE One(c.initialLayout[keys[k]])

NoComment == <<-1>>

\* QuantumComputation::lookForOpenQASM_IO_Layout on a file whose layout
\* comments are "// i <ilist>" and "// o <olist>" (NoComment: no such line)
lookForOpenQASM_IO_Layout(c, ilist, olist) ==
    LET Marked(m) == [c |-> m.c, found |-> TRUE, thrown |-> m.thrown]
        \* after the "// o" line: garbage is marked when the list was short
        Output(c2, n) ==
            IF Len(olist) >= n THEN [c |-> c2, found |-> TRUE, thrown |-> FALSE]
            ELSE Marked(MarkGarbage(c2, SortedKeys(DOMAIN c2.initialLayout), 1))
        \* after the "// i" line: the "// o" line counts only after a complete
        \* initial layout
        Input(c1, n) ==
            IF ~(ilist = NoComment \/ Len(ilist) >= n) \/ olist = NoComment
            THEN [c |-> c1, found |-> FALSE, thrown |-> FALSE]
            ELSE Output([c1 EXCEPT !.outputPermutation =
                                      InsertList(c1.outputPermutation, olist, 0, n)],
                        n)
        Lines(n) ==
            Input(IF ilist = NoComment THEN c
                  ELSE [c EXCEPT !.initialLayout =
                                    InsertList(c.initialLayout, ilist, 0, n)],
                  n)
    IN Lines(c.nqubits + c.nancillae)

RECURSIVE DefaultLayout(_, _)
\* import, lines 663-668
DefaultLayout(c, i) ==
    IF i >= c.nqubits THEN c
    ELSE DefaultLayout(
           [c EXCEPT !.initialLayout = MapInsert(c.initialLayout, i, i),
                     !.outputPermutation =
                         IF ~isIdleQubit(c, i) THEN MapInsert(c.outputPermutation, i, i)
                         ELSE c.outputPermutation],
           i + 1)

\* import, case OpenQASM, after importOpenQASM returned
QasmFinish(c, ilist, olist) ==
    LET Layout(r) ==
            IF r.thrown THEN Outcome(r.c, "throw", <<>>)
            ELSE Outcome(IF r.found THEN r.c ELSE DefaultLayout(r.c, 0), "ok", <<>>)
    IN Layout(lookForOpenQASM_IO_Layout(c, ilist, olist))

-----------------------------------------------------------------------------
(* REAL import: readRealHeader and readRealGateDescriptions *)

\* .numvars n
RealNumvars(c, n) == Outcome([c EXCEPT !.nqubits = n, !.nclassics = n], "ok", <<>>)

RECURSIVE RealVariablesLoop(_, _, _)
\* the loop of .variables over the names found on the line
RealVariablesLoop(c, variables, i) ==
    IF i >= c.nqubits THEN Outcome(c, "ok", <<>>)
    ELSE IF i >= Len(variables) THEN Outcome(c, "throw", <<>>)
    ELSE RealVariablesLoop(
           [c EXCEPT !.qregs = MapInsert(c.qregs, variables[i + 1], <<i, 1>>),
                     !.cregs = MapInsert(c.cregs, "c_" \o variables[i + 1], <<i, 1>>),
                     !.initialLayout = MapInsert(c.initialLayout, i, i),
                     !.outputPermutation = MapInsert(c.outputPermutation, i, i)],
           variables, i + 1)

RealVariables(c, variables) == RealVariablesLoop(c, variables, 0)

RECURSIVE RealConstantsLoop(_, _, _)
\* the loop of .constants over the characters of the line
RealConstantsLoop(c, values, i) ==
    IF i >= c.nqubits THEN Outcome(c, "ok", <<>>)
    ELSE IF i >= Len(values) THEN Outcome(c, "throw", <<>>)
    ELSE IF values[i + 1] = "1"
    THEN RealConstantsLoop(
           Emplace(c, StandardOperation(c.nqubits, <<>>, <<i>>, "X")),
           values, i + 1)
    ELSE IF values[i + 1] # "-" /\ values[i + 1] # "0" THEN Outcome(c, "throw", <<>>)
    ELSE RealConstantsLoop(c, values, i + 1)

RealConstants(c, values) == RealConstantsLoop(c, values, 0)

\* static_cast<unsigned short>(stoul(digits)) - 1, stored in an unsigned short
NControls(n) == U16(U16(n) - 1 + 65536)

\* the gate line with every control taken as a positive one
RealGatePositive(c, n, labels) ==
    LET Gate(ncontrols) ==
            IF ncontrols >= c.nqubits \/ Len(labels) < ncontrols + 1
            THEN Outcome(c, "throw", <<>>)
            ELSE IF \E k \in 1..(ncontrols + 1) : labels[k][1] \notin DOMAIN c.qregs
            THEN Outcome(c, "throw", <<>>)
            ELSE Outcome(
                   Emplace(c, StandardOperation(
                                c.nqubits,
                                PosControls([k \in 1..ncontrols |->
                                               c.qregs[labels[k][1]][1]]),
                                <<c.qregs[labels[ncontrols + 1][1]][1]>>, "X")),
                   "ok", <<>>)
    IN Gate(IF n < 0 THEN 0 ELSE U16(U16(n) - 1 + 65536))

\* a gate line "t<n> label ... label" (n < 0: no digits); a label is
\* <<name, negative>>, negative for a name written with a leading '-'. The
\* '-' is taken off the controls only: a target written with it is looked
\* up as it stands and not found
RealGate(c, n, labels) ==
    LET Gate(ncontrols) ==
            IF ncontrols >= c.nqubits THEN Outcome(c, "throw", <<>>)
            ELSE IF Len(labels) < ncontrols + 1 THEN Outcome(c, "throw", <<>>)
            ELSE IF \/ \E k \in 1..(ncontrols + 1) : labels[k][1] \notin DOMAIN c.qregs
                    \/ labels[ncontrols + 1][2]
            THEN Outcome(c, "throw", <<>>)
            ELSE Outcome(
                   Emplace(c, StandardOperation(
                                c.nqubits,
                                [k \in 1..ncontrols |->
                                   Control(c.qregs[labels[k][1]][1], labels[k][2])],
                                <<c.qregs[labels[ncontrols + 1][1]][1]>>, "X")),
                   "ok", <<>>)
    IN Gate(IF n < 0 THEN 0 ELSE NControls(n))

-----------------------------------------------------------------------------
(* GRCS import *)

\* is >> nqubits
GrcsHeader(c, n) == Outcome([c EXCEPT !.nqubits = n], "ok", <<>>)

\* one gate line "<cycle> <identifier> [control] target"
GrcsGate(c, identifier, control, target) ==
    IF identifier = "cz"
    THEN Outcome(Emplace(c, StandardOperation(c.nqubits, PosControls(<<control>>),
                                              <<target>>, "Z")), "ok", <<>>)
    ELSE IF identifier = "h"
    THEN Outcome(Emplace(c, StandardOperation(c.nqubits, <<>>, <<target>>, "H")),
                 "ok", <<>>)
    ELSE IF identifier = "t"
    THEN Outcome(Emplace(c, StandardOperation(c.nqubits, <<>>, <<target>>, "T")),
                 "ok", <<>>)
    ELSE Outcome(c, "throw", <<>>)

RECURSIVE GrcsLayout(_, _)
\* lines 389-392
GrcsLayout(c, i) ==
    IF i >= c.nqubits THEN c
    ELSE GrcsLayout([c EXCEPT !.initialLayout = MapInsert(c.initialLayout, i, i),
                              !.outputPermutation = MapInsert(c.outputPermutation, i, i)],
                    i + 1)

GrcsFinish(c) == Outcome(GrcsLayout(c, 0), "ok", <<>>)

-----------------------------------------------------------------------------
(* TFC import: readTFCHeader and readTFCGateDescriptions *)

Count(seq, x) == Cardinality({k \in 1..Len(seq) : seq[k] = x})

TfcStatus(c, vm, status) == [c |-> c, vm |-> vm, status |-> status]

RECURSIVE TfcVarLoop(_, _, _, _, _, _, _)
\* lines 501-517: the variables get their indices, constants of value 1 an X
TfcVarLoop(c, vm, variables, inputs, constants, k, idx) ==
    LET \* a variable that is no input: constants.at(constidx - inputs.size())
        Constant(ci) ==
            IF ci >= Len(constants)       \* constants.at: out_of_range
            THEN TfcStatus(c, vm, "throw")
            ELSE IF constants[ci + 1] \notin {"0", "1"}
            THEN TfcStatus(c, vm, "throw")
            ELSE TfcVarLoop(
                   IF constants[ci + 1] = "1"
                   THEN Emplace(c, StandardOperation(c.nqubits + c.nancillae, <<>>,
                                                     <<idx.constidx>>, "X"))
                   ELSE c,
                   MapInsert(vm, variables[k], idx.constidx), variables, inputs,
                   constants, k + 1, [idx EXCEPT !.constidx = @ + 1])
    IN IF k > Len(variables) THEN TfcStatus(c, vm, "ok")
       ELSE IF Count(inputs, variables[k]) > 0
       THEN TfcVarLoop(c, MapInsert(vm, variables[k], idx.qidx), variables, inputs,
                       constants, k + 1, [idx EXCEPT !.qidx = @ + 1])
       ELSE Constant(idx.constidx - Len(inputs))

\* the layout with every variable taken as an output
TfcLayoutAllOutputs(c, vm, variables, outputs, q) ==
    TfcStatus([c EXCEPT
                 !.initialLayout = [k \in 0..(Len(variables) - 1) |->
                                      vm[variables[k + 1]]],
                 !.outputPermutation = [k \in 0..(Len(variables) - 1) |->
                                          vm[variables[k + 1]]]],
              vm, "ok")

RECURSIVE TfcLayoutLoop(_, _, _, _, _)
\* lines 519-529; garbage.set throws beyond the bitset
TfcLayoutLoop(c, vm, variables, outputs, q) ==
    LET \* a variable that is no output
        Garbage(c2, p) ==
            IF p >= MAX_QUBITS THEN TfcStatus(c2, vm, "throw")
            ELSE TfcLayoutLoop([c2 EXCEPT !.garbage = c.garbage \cup {p}],
                               vm, variables, outputs, q + 1)
        \* one iteration, p = varMap.at(variable)
        Of(p) ==
            IF Count(outputs, variables[q + 1]) > 0
            THEN TfcLayoutLoop(
                   [c EXCEPT !.initialLayout = MapSet(c.initialLayout, q, p),
                             !.outputPermutation = MapSet(c.outputPermutation, q, p)],
                   vm, variables, outputs, q + 1)
            ELSE Garbage([c EXCEPT
                            !.initialLayout = MapSet(c.initialLayout, q, p),
                            !.outputPermutation = MapErase(c.outputPermutation, q)],
                         p)
    IN IF q >= Len(variables) THEN TfcStatus(c, vm, "ok")
       ELSE Of(vm[variables[q + 1]])

\* readTFCHeader on a header with the lines .v, .i, .o, .c and BEGIN; inputs
\* and outputs name declared variables only (the statements throw otherwise)
readTFCHeader(c, variables, inputs, outputs, constants) ==
    LET \* lines 519-529 after the variable loop
        VariablesDone(r) ==
            IF r.status # "ok" THEN r
            ELSE TfcLayoutLoop(r.c, r.vm, variables, outputs, 0)
        \* lines 501-517 after the ancillary register of the constants
        AncillaeDone(r) ==
            IF r.status # "ok" THEN TfcStatus(r.c, EmptyMap, r.status)
            ELSE VariablesDone(
                   TfcVarLoop(r.c, EmptyMap, variables, inputs, constants, 1,
                              [qidx |-> 0, constidx |-> Len(inputs)]))
        \* lines 496-499 after the qubit register of the inputs
        QubitsDone(r) ==
            IF r.status # "ok" THEN TfcStatus(r.c, EmptyMap, r.status)
            ELSE AncillaeDone(
                   IF Len(variables) - Len(inputs) > 0
                   THEN addAncillaryRegister(r.c, Len(variables) - Len(inputs),
                                             DEFAULT_ANCREG)
                   ELSE r)
    IN QubitsDone(addQubitRegister(c, Len(inputs), DEFAULT_QREG, TRUE))

\* a gate line "t<n> label,...,label"; a label is <<name, negative>>
TfcGate(c, vm, n, labels) ==
    IF NControls(n) >= c.nqubits + c.nancillae THEN Outcome(c, "throw", <<>>)
    ELSE IF \E k \in 1..Len(labels) : labels[k][1] \notin DOMAIN vm
    THEN Outcome(c, "throw", <<>>)     \* varMap.at: out_of_range
    ELSE Outcome(
           Emplace(c, StandardOperation(
                        c.nqubits,
                        [k \in 1..(Len(labels) - 1) |->
                           Control(vm[labels[k][1]], labels[k][2])],
                        <<vm[labels[Len(labels)][1]]>>, "X")),
           "ok", <<>>)

-----------------------------------------------------------------------------
(* The state machine: a circuit object, its public edits and its importers *)

QRegNames == {"q", "r"}
AncRegNames == {"anc", "b"}
Phys == 0..MaxPhys
OutIdx == -1..MaxPhys
Logicals == 0..MAX_QUBITS
RegSizes == 0..MaxReg

Call(name, status, ret) == [call |-> name, status |-> status, ret |-> ret]

\* no computation at work
NoRun == [kind |-> "none"]

\* a call that returns or throws leaves the object usable; exit(), a failed
\* assert, a loop that never ends and undefined behaviour end the run
ModeAfter(status) == IF status \in {"ok", "throw"} THEN "idle" ELSE status

\* a QuantumComputation after its constructor
NewObject ==
    /\ nqubits = 0 /\ nancillae = 0 /\ nclassics = 0
    /\ qregs = EmptyMap /\ cregs = EmptyMap /\ ancregs = EmptyMap
    /\ initialLayout = EmptyMap /\ outputPermutation = EmptyMap
    /\ ancillary = {} /\ garbage = {}
    /\ ops = <<>>
    /\ mode = "idle"
    /\ varMap = EmptyMap
    /\ last = Call("new", "ok", <<>>)
    /\ ncalls = 0

Init == NewObject /\ run = NoRun

CanEdit == mode = "idle" /\ ncalls < MaxEdits

\* an edit called on the circuit
Finish(name, out) ==
    /\ Install(out.c)
    /\ mode' = ModeAfter(out.status)
    /\ last' = Call(name, out.status, out.ret)
    /\ ncalls' = ncalls + 1
    /\ UNCHANGED varMap

AddQubitRegister ==
    /\ CanEdit
    /\ \E nq \in RegSizes, name \in QRegNames, assertsOn \in BOOLEAN :
          Finish("addQubitRegister", addQubitRegister(Circuit, nq, name, assertsOn))

AddAncillaryRegister ==
    /\ CanEdit
    /\ \E nq \in RegSizes, name \in AncRegNames :
          Finish("addAncillaryRegister", addAncillaryRegister(Circuit, nq, name))

AddAncillaryQubit ==
    /\ CanEdit
    /\ \E p \in Phys, o \in OutIdx :
          Finish("addAncillaryQubit", addAncillaryQubit(Circuit, p, o))

AddQubit ==
    /\ CanEdit
    /\ \E l \in Logicals, p \in Phys, o \in OutIdx, elided \in BOOLEAN :
          Finish("addQubit", addQubit(Circuit, l, p, o, elided))

RemoveQubit ==
    /\ CanEdit
    /\ \E l \in Logicals : Finish("removeQubit", removeQubit(Circuit, l))

StripIdleQubits ==
    /\ CanEdit
    /\ \E force \in BOOLEAN :
          LET Called(out) == Finish("stripIdleQubits",
                                    Outcome(out.c, out.status, <<force>>))
          IN Called(stripIdleQubits(Circuit, force))

\* a client that adds a qubit and removes it again: addQubit(l, p, o) on a
\* free physical index and a logical index within range, then removeQubit(l)
AddThenRemoveQubit ==
    /\ CanEdit /\ ncalls + 2 <= MaxEdits
    /\ \E l \in Logicals, p \in Phys, o \in OutIdx, elided \in BOOLEAN :
          LET Removed(removed) ==
                  /\ Install(removed.c)
                  /\ mode' = ModeAfter(removed.status)
                  /\ last' = Call("addQubit;removeQubit", removed.status, removed.ret)
                  /\ ncalls' = ncalls + 2
                  /\ UNCHANGED varMap
              Added(added) ==
                  /\ added.status = "ok"
                  /\ Removed(removeQubit(added.c, l))
          IN Added(addQubit(Circuit, l, p, o, elided))

\* the circuit edits alone
Edit ==
    \/ AddQubitRegister \/ AddAncillaryRegister \/ AddAncillaryQubit
    \/ AddQubit \/ RemoveQubit \/ StripIdleQubits \/ AddThenRemoveQubit

SpecEdits == Init /\ [][Edit]_vars

-----------------------------------------------------------------------------
(* import(istream, format), one action per statement of the file *)

Formats == {"qasm", "real", "grcs", "tfc"}
FirstMode(format) ==
    CASE format = "qasm" -> "qasm"
      [] format = "real" -> "real_header"
      [] format = "grcs" -> "grcs_header"
      [] format = "tfc" -> "tfc_header"
EditsLeftAfterImport == MaxEdits - MaxEditsAfterImport

\* import(): reset() and dispatch on the format
ImportBegin ==
    /\ mode = "idle"
    /\ \E format \in Formats :
          /\ Install(ResetCircuit)
          /\ mode' = FirstMode(format)
          /\ last' = Call("import", "running", <<format>>)
    /\ varMap' = EmptyMap
    /\ ncalls' = 0

\* the importer read one more statement: on success it goes on in mode next,
\* an exception ends import() with the circuit as it is
Statement(out, next) ==
    /\ Install(out.c)
    /\ IF out.status = "ok"
       THEN mode' = next /\ last' = last /\ ncalls' = ncalls + 1
       ELSE /\ mode' = "idle"
            /\ last' = Call("import", "throw", last.ret)
            /\ ncalls' = EditsLeftAfterImport

\* import() returns
ImportEnd(out) ==
    /\ Install(out.c)
    /\ mode' = "idle"
    /\ last' = Call("import", out.status, last.ret)
    /\ ncalls' = EditsLeftAfterImport

MoreStatements == ncalls < MaxStmts
MoreOps == Len(ops) < MaxOps

(* OpenQASM *)
QasmArgs == {<<s, offset>> : s \in QRegNames, offset \in -1..MaxOffset}
Arg(a) == ArgumentQreg(Circuit, a[1], a[2])

QasmQregStmt ==
    /\ mode = "qasm" /\ MoreStatements /\ nqubits < MAX_QUBITS
    /\ \E s \in QRegNames, n \in 1..MaxReg : Statement(QasmQreg(Circuit, s, n), "qasm")
    /\ UNCHANGED varMap

QasmUStmt ==
    /\ mode = "qasm" /\ MoreStatements /\ MoreOps
    /\ \E a \in QasmArgs :
          Statement(QasmGate(Circuit, IF Arg(a) = <<>> THEN ParserError
                                      ELSE GateU(Circuit, Arg(a))), "qasm")
    /\ UNCHANGED varMap

QasmCXStmt ==
    /\ mode = "qasm" /\ MoreStatements /\ MoreOps
    /\ \E a \in QasmArgs, b \in QasmArgs :
          Statement(QasmGate(Circuit, IF Arg(a) = <<>> \/ Arg(b) = <<>> THEN ParserError
                                      ELSE GateCX(Circuit, Arg(a), Arg(b))), "qasm")
    /\ UNCHANGED varMap

QasmSwapStmt ==
    /\ mode = "qasm" /\ MoreStatements /\ MoreOps
    /\ \E a \in QasmArgs, b \in QasmArgs :
          Statement(QasmGate(Circuit, IF Arg(a) = <<>> \/ Arg(b) = <<>> THEN ParserError
                                      ELSE GateSwap(Circuit, Arg(a), Arg(b))), "qasm")
    /\ UNCHANGED varMap

\* the layout comments a file holds: lists of physical qubit indices
LayoutLists ==
    {<<>>} \cup {<<p>> : p \in Phys}
           \cup {<<p, q>> : p \in Phys, q \in {0}}
LayoutComments == {NoComment} \cup LayoutLists

\* end of file: at least one statement was read
QasmEof ==
    /\ mode = "qasm" /\ ncalls > 0
    /\ \E ilist \in LayoutComments, olist \in LayoutComments :
          ImportEnd(QasmFinish(Circuit, ilist, olist))
    /\ UNCHANGED varMap

(* REAL *)
\* the variable lists of a .variables line, the value strings of a
\* .constants line, and the labels of a gate line
RealVarLists == {<<>>, <<"a">>, <<"a", "b">>, <<"a", "a">>, <<"a", "b", "c">>,
                 <<"a", "b", "c", "d">>}
RealConstLists == {<<"-", "-">>, <<"1", "-">>, <<"-", "1", "-", "-">>, <<"x">>}
Labels == {<<"a", FALSE>>, <<"b", FALSE>>, <<"a", TRUE>>, <<"z", FALSE>>}
LabelLists ==
    {<<l>> : l \in Labels} \cup {<<l, m>> : l \in Labels, m \in Labels}
        \cup {<<<<"b", FALSE>>, <<"a", TRUE>>, <<"c", FALSE>>>>,
              <<<<"a", FALSE>>, <<"c", FALSE>>, <<"b", FALSE>>>>,
              <<<<"a", FALSE>>, <<"z", FALSE>>, <<"c", FALSE>>>>}

RealNumvarsStmt ==
    /\ mode = "real_header" /\ MoreStatements
    /\ \E n \in 0..(MAX_QUBITS + 1) : Statement(RealNumvars(Circuit, n), "real_header")
    /\ UNCHANGED varMap

RealVariablesStmt ==
    /\ mode = "real_header" /\ MoreStatements
    /\ \E variables \in RealVarLists :
          /\ Len(variables) <= nqubits
          /\ Statement(RealVariables(Circuit, variables), "real_header")
    /\ UNCHANGED varMap

RealConstantsStmt ==
    /\ mode = "real_header" /\ MoreStatements /\ MoreOps
    /\ \E values \in RealConstLists :
          Statement(RealConstants(Circuit, values), "real_header")
    /\ UNCHANGED varMap

\* a header command the reader does not know, or the end of the file
RealBadHeader ==
    /\ mode = "real_header"
    /\ Statement(Outcome(Circuit, "throw", <<>>), "real_header")
    /\ UNCHANGED varMap

RealBegin ==
    /\ mode = "real_header"
    /\ Statement(Outcome(Circuit, "ok", <<>>), "real_gates")
    /\ UNCHANGED varMap

RealGateStmt ==
    /\ mode = "real_gates" /\ MoreOps
    /\ \E n \in -1..MAX_QUBITS, labels \in LabelLists :
          Statement(RealGate(Circuit, n, labels), "real_gates")
    /\ UNCHANGED varMap

RealEnd ==
    /\ mode = "real_gates"
    /\ ImportEnd(Outcome(Circuit, "ok", <<>>))
    /\ UNCHANGED varMap

(* GRCS *)
GrcsIdentifiers == {"cz", "h", "t", "u"}

GrcsHeaderStmt ==
    /\ mode = "grcs_header"
    /\ \E n \in 0..(MAX_QUBITS + 1) : Statement(GrcsHeader(Circuit, n), "grcs_gates")
    /\ UNCHANGED varMap

GrcsGateStmt ==
    /\ mode = "grcs_gates" /\ MoreOps
    /\ \E identifier \in GrcsIdentifiers, control \in Phys, target \in Phys :
          Statement(GrcsGate(Circuit, identifier, control, target), "grcs_gates")
    /\ UNCHANGED varMap

GrcsEof ==
    /\ mode = "grcs_gates"
    /\ ImportEnd(GrcsFinish(Circuit))
    /\ UNCHANGED varMap

(* TFC *)
TfcVarLists == {<<"a">>, <<"a", "b">>, <<"a", "a">>, <<"a", "b", "c">>,
                <<"a", "b", "c", "d">>}
TfcConstLists == {<<>>, <<"0">>, <<"1">>, <<"1", "0">>, <<"1", "x">>}
Prefixes(seq) == {SubSeq(seq, 1, k) : k \in 0..Len(seq)}
Suffixes(seq) == {SubSeq(seq, k, Len(seq)) : k \in 1..(Len(seq) + 1)}

\* the header up to BEGIN; readTFCHeader touches the circuit after it only
TfcHeaderStmt ==
    /\ mode = "tfc_header"
    /\ \E variables \in TfcVarLists, constants \in TfcConstLists :
       \E inputs \in Prefixes(variables) \cup Suffixes(variables),
          outputs \in Suffixes(variables) :
          LET Read(r) ==
                  /\ Statement(Outcome(r.c, r.status, <<>>), "tfc_gates")
                  /\ varMap' = IF r.status = "ok" THEN r.vm ELSE EmptyMap
          IN Read(readTFCHeader(Circuit, variables, inputs, outputs, constants))

TfcGateStmt ==
    /\ mode = "tfc_gates" /\ MoreOps
    /\ \E n \in 0..MAX_QUBITS, labels \in LabelLists :
          /\ ~labels[Len(labels)][2]
          /\ LET Read(out) ==
                     /\ Statement(out, "tfc_gates")
                     /\ varMap' = IF out.status = "ok" THEN varMap ELSE EmptyMap
             IN Read(TfcGate(Circuit, varMap, n, labels))

TfcEnd ==
    /\ mode = "tfc_gates"
    /\ ImportEnd(Outcome(Circuit, "ok", <<>>))
    /\ varMap' = EmptyMap

Next ==
    \/ AddQubitRegister \/ AddAncillaryRegister \/ AddAncillaryQubit
    \/ AddQubit \/ RemoveQubit \/ StripIdleQubits \/ AddThenRemoveQubit
    \/ ImportBegin
    \/ QasmQregStmt \/ QasmUStmt \/ QasmCXStmt \/ QasmSwapStmt \/ QasmEof
    \/ RealNumvarsStmt \/ RealVariablesStmt \/ RealConstantsStmt \/ RealBadHeader
    \/ RealBegin \/ RealGateStmt \/ RealEnd
    \/ GrcsHeaderStmt \/ GrcsGateStmt \/ GrcsEof
    \/ TfcHeaderStmt \/ TfcGateStmt \/ TfcEnd

Spec == Init /\ [][Next]_vars

-----------------------------------------------------------------------------
(* Properties *)

\* a public call has returned normally
Returned == mode = "idle" /\ last.status = "ok"

Injective(map) ==
    \A p \in DOMAIN map, q \in DOMAIN map : map[p] = map[q] => p = q

\* the qubits the operations act on
OpQubits(op) == ControlQubits(op) \cup TargetQubits(op)
AllLeaves == UNION {Leaves(ops[i]) : i \in 1..Len(ops)}

\* C1: after any sequence of public mutations, initialLayout and
\* outputPermutation are each injective
C1_LayoutsInjective ==
    Returned => Injective(initialLayout) /\ Injective(outputPermutation)

\* C2: after every public mutation every control and target index of every
\* operation in ops is strictly less than nqubits + nancillae
C2_OperationIndicesInRange ==
    Returned => \A op \in AllLeaves : \A q \in OpQubits(op) : q < nqubits + nancillae

\* C3: every operation an importer appends to ops has no qubit that is both a
\* control and a target of it
C3_ControlsDisjointFromTargets ==
    \A op \in AllLeaves : ControlQubits(op) \cap TargetQubits(op) = {}

\* the index range [base, base + length) of a register
Range(reg) == {i \in 0..(reg[1] + reg[2] - 1) : i >= reg[1]}
PairwiseDisjoint(regs) ==
    \A a \in DOMAIN regs, b \in DOMAIN regs :
        a # b => Range(regs[a]) \cap Range(regs[b]) = {}

\* C4: after any sequence of circuit edits, every logical index whose
\* ancillary bit is set is at least nqubits
C4_AncillaeAboveQubits ==
    Returned => \A q \in ancillary : q >= nqubits

\* C5: after any sequence of circuit edits, the ranges of the registers of one
\* kind are pairwise disjoint and every ancilla register starts above the end
\* of every non-ancilla register
C5_RegistersDisjointAndOrdered ==
    Returned =>
        /\ PairwiseDisjoint(qregs)
        /\ PairwiseDisjoint(ancregs)
        /\ \A a \in DOMAIN ancregs, q \in DOMAIN qregs :
               ancregs[a][1] >= qregs[q][1] + qregs[q][2]

\* C6: addQubit(logical, p, o) with p in neither layout and logical <= nqubits,
\* followed by removeQubit(logical), restores nqubits, nancillae, qregs,
\* ancregs, both layouts and both bitsets
C6_AddThenRemoveRestores ==
    [][(last'.call = "addQubit;removeQubit" /\ ncalls' = ncalls + 2)
         => /\ nqubits' = nqubits /\ nancillae' = nancillae
            /\ qregs' = qregs /\ ancregs' = ancregs
            /\ initialLayout' = initialLayout
            /\ outputPermutation' = outputPermutation
            /\ ancillary' = ancillary /\ garbage' = garbage]_vars

\* C7: in every state reached by an import or an edit, a physical index of
\* initialLayout is absent from outputPermutation exactly if the garbage bit of
\* its logical qubit is set
C7_AbsentIffGarbage ==
    Returned =>
        \A p \in DOMAIN initialLayout :
            (p \notin DOMAIN outputPermutation) <=> (initialLayout[p] \in garbage)

\* C8: an import that raises a fatal error leaves the circuit in its reset state
C8_FailedImportLeavesReset ==
    (mode = "idle" /\ last.call = "import" /\ last.status = "throw")
        => /\ nqubits = 0 /\ nancillae = 0 /\ nclassics = 0
           /\ ops = <<>>
           /\ DOMAIN qregs = {} /\ DOMAIN cregs = {} /\ DOMAIN ancregs = {}
           /\ DOMAIN initialLayout = {} /\ DOMAIN outputPermutation = {}

\* C9: in every state a public call leaves behind nqubits + nancillae is at
\* most MAX_QUBITS: what would exceed the maximum is rejected
C9_WithinMaxQubits == Returned => nqubits + nancillae <= MAX_QUBITS

\* C10: addQubitRegister on a circuit with nancillae > 0 fails with an error
\* and leaves qregs, both layouts, nqubits and the operations unchanged
C10_AddQubitRegisterRejectsAncillae ==
    [][(mode = "idle" /\ nancillae > 0 /\ last'.call = "addQubitRegister"
        /\ ncalls' = ncalls + 1)
         => /\ last'.status = "throw"
            /\ qregs' = qregs
            /\ initialLayout' = initialLayout
            /\ outputPermutation' = outputPermutation
            /\ nqubits' = nqubits
            /\ ops' = ops]_vars

-----------------------------------------------------------------------------
(* The permutation adapter: changePermutation and changePermutation2 *)

Keys == 0..MaxKey
\* every permutationMap over the keys and values of the model
PermutationMaps == UNION {[D -> Keys] : D \in SUBSET Keys}

\* Operation::standardPermutation, and a variable order after a reordering
standardPermutation == [k \in Keys |-> k]
VarMaps == {standardPermutation, [k \in Keys |-> MaxKey - k]}

\* incRef / decRef of the kernel on an edge
IncRef(refs, e) == MapSet(refs, e, (IF e \in DOMAIN refs THEN refs[e] ELSE 0) + 1)
DecRef(refs, e) == MapSet(refs, e, (IF e \in DOMAIN refs THEN refs[e] ELSE 0) - 1)

\* the search for the goal value in the first map: the first key in
\* iteration order that holds it, 0 when there is none (lines 1794-1802)
FindValue(from, goal) ==
    LET FirstOrZero(hits) ==
            IF hits = {} THEN 0 ELSE CHOOSE p \in hits : \A r \in hits : p <= r
    IN FirstOrZero({p \in DOMAIN from : from[p] = goal})

\* one iteration of the loop over `to`, at its key i: the map afterwards, the
\* SWAP emitted (<<>>: none) and how the iteration ended
changePermutationStep(from, to, i) ==
    LET Swap(goal, current, j) ==
            IF j \notin DOMAIN from    \* from.at(j): out_of_range
            THEN [from |-> [from EXCEPT ![i] = goal], swap |-> <<i, j>>,
                  status |-> "throw"]
            ELSE [from |-> [[from EXCEPT ![i] = goal] EXCEPT ![j] = current],
                  swap |-> <<i, j>>, status |-> "ok"]
        Found(goal, current) ==
            IF current = goal
            THEN [from |-> from, swap |-> <<>>, status |-> "ok"]
            ELSE Swap(goal, current, FindValue(from, goal))
    IN IF i \notin DOMAIN from        \* the message reads it->first at end()
       THEN [from |-> from, swap |-> <<>>, status |-> "undefined"]
       ELSE Found(to[i], from[i])

\* lines 1805-1821: on = multiply(SWAP, on) on the side `regular` names,
\* incRef(on), decRef(saved), garbageCollect(); the kernel's result is a new
\* edge
SwapMultiplied(r, swap) ==
    [r EXCEPT
       !.e = r.nextId, !.nextId = r.nextId + 1,
       !.refs = DecRef(IncRef(r.refs, r.nextId), r.e),
       !.calls = r.calls \o
           << <<"multiply", IF r.regular THEN "left" ELSE "right", "SWAP",
                IF r.reorder THEN r.vmap[swap[1]] ELSE swap[1],
                IF r.reorder THEN r.vmap[swap[2]] ELSE swap[2]>>,
              <<"incRef", r.nextId>>, <<"decRef", r.e>>, <<"garbageCollect">> >>]

\* the run after one iteration; ub: what the undefined read ends in
AdapterStepped(r, st, ub) ==
    IF st.status = "undefined" THEN [r EXCEPT !.pc = ub]
    ELSE IF st.swap = <<>> THEN [r EXCEPT !.k = r.k + 1]
    ELSE IF st.status = "throw"
    THEN [SwapMultiplied(r, st.swap) EXCEPT !.map = st.from, !.pc = "throw"]
    ELSE [SwapMultiplied(r, st.swap) EXCEPT !.map = st.from, !.k = r.k + 1]

\* a call of the adapter on the edge 0 its caller holds one reference to
AdapterCall(from, to, reorder, regular, vmap) ==
    [kind |-> "adapter", pc |-> "enter", reorder |-> reorder, regular |-> regular,
     from0 |-> from, map |-> from, to |-> to, vmap |-> vmap, k |-> 1,
     e |-> 0, nextId |-> 1, refs |-> (0 :> 1), calls |-> <<>>]

InitAdapter ==
    /\ NewObject
    /\ \E from \in PermutationMaps, to \in PermutationMaps :
       \E reorder \in BOOLEAN, regular \in BOOLEAN, vmap \in VarMaps :
          /\ reorder \/ vmap = standardPermutation
          /\ run = AdapterCall(from, to, reorder, regular, vmap)

InAdapter == run.kind \in {"adapter", "build"}

\* assert(from.size() >= to.size())
AdapterEnter ==
    /\ InAdapter /\ run.pc = "enter"
    /\ \E assertsOn \in BOOLEAN :
          run' = [run EXCEPT !.pc =
                     IF assertsOn /\ Cardinality(DOMAIN run.map) <
                                        Cardinality(DOMAIN run.to)
                     THEN "abort" ELSE "adapter"]
    /\ UNCHANGED object

\* one iteration of the loop over `to`
AdapterStep ==
    /\ InAdapter /\ run.pc = "adapter"
    /\ run.k <= Cardinality(DOMAIN run.to)
    /\ \E ub \in {"throw", "undefined"} :
          run' = AdapterStepped(
                     run,
                     changePermutationStep(run.map, run.to,
                                           SortedKeys(DOMAIN run.to)[run.k]),
                     ub)
    /\ UNCHANGED object

\* the loop is over: the adapter returns
AdapterReturn ==
    /\ InAdapter /\ run.pc = "adapter"
    /\ run.k > Cardinality(DOMAIN run.to)
    /\ run' = [run EXCEPT !.pc = IF run.kind = "adapter" THEN "done" ELSE "reduce"]
    /\ UNCHANGED object

NextAdapter == AdapterEnter \/ AdapterStep \/ AdapterReturn

SpecAdapter == InitAdapter /\ [][NextAdapter]_vars

\* the precondition the adapter states: |from| >= |to|, keys of to in from
AdapterPrecondition(from, to) ==
    /\ Cardinality(DOMAIN from) >= Cardinality(DOMAIN to)
    /\ DOMAIN to \subseteq DOMAIN from

Values(m) == {m[p] : p \in DOMAIN m}

\* how often each value occurs among the values of a map
ValueCounts(m) == [v \in Keys |-> Cardinality({p \in DOMAIN m : m[p] = v})]

AdapterReturned == run.kind = "adapter" /\ run.pc = "done"

\* C11: for maps meeting the adapter's precondition, after the adapter returns
\* from agrees with to on every key of to, and from holds the same values as
\* often as before
C11_AdapterReachesTarget ==
    (AdapterReturned /\ AdapterPrecondition(run.from0, run.to))
        => /\ \A p \in DOMAIN run.to : run.map[p] = run.to[p]
           /\ ValueCounts(run.map) = ValueCounts(run.from0)

\* the same for a target that is injective and takes its values among those
\* of an injective from
C11_AdapterOnPermutations ==
    (/\ AdapterReturned /\ AdapterPrecondition(run.from0, run.to)
     /\ Injective(run.from0) /\ Injective(run.to)
     /\ Values(run.to) \subseteq Values(run.from0))
        => /\ \A p \in DOMAIN run.to : run.map[p] = run.to[p]
           /\ ValueCounts(run.map) = ValueCounts(run.from0)

-----------------------------------------------------------------------------
(* Properties of stripIdleQubits *)

\* stripIdleQubits(force) is called on an idle object and returns
StripReturns(force) ==
    /\ mode = "idle" /\ ncalls' = ncalls + 1
    /\ last' = Call("stripIdleQubits", "ok", <<force>>)

\* the physical qubits the call is to remove
IdleToStrip(force) ==
    {p \in DOMAIN initialLayout :
        /\ isIdleQubit(Circuit, p)
        /\ \/ force
           \/ p \notin DOMAIN outputPermutation
           \/ outputPermutation[p] < 0}

\* the same operations in the same order, their width apart
SameOperations(a, b) == BroadcastNqubits(a, 0) = BroadcastNqubits(b, 0)

\* C12: stripIdleQubits(force) removes exactly the physical qubits of
\* initialLayout no operation acts on and for which force holds or the output
\* mapping is absent or negative, keeps every other qubit and leaves the list
\* of operations as it was; after stripIdleQubits(true) no qubit left in
\* initialLayout is idle
C12_StripRemovesExactlyIdle ==
    [][\A force \in BOOLEAN :
         StripReturns(force)
           => /\ DOMAIN initialLayout' = DOMAIN initialLayout \ IdleToStrip(force)
              /\ SameOperations(ops', ops)
              /\ force => \A p \in DOMAIN initialLayout' :
                              \E i \in 1..Len(ops') : ActsOn(ops'[i], p)]_vars

\* the logical indices of the layout are exactly 0..n-1, one qubit each
LogicalsAre(layout, n) ==
    Cardinality(DOMAIN layout) = n /\ Values(layout) = 0..(n - 1)

\* stripIdleQubits is called on an idle object and returns
StripCalled ==
    /\ mode = "idle" /\ ncalls' = ncalls + 1
    /\ last'.call = "stripIdleQubits" /\ last'.status = "ok"

\* C13: if the logical indices of initialLayout are exactly 0..n-1 before
\* stripIdleQubits (n = nqubits + nancillae qubits), then afterwards they are
\* exactly 0..n'-1 with n' = nqubits + nancillae, the qubits that stay keep
\* their relative logical order, and the values of outputPermutation are
\* renumbered by the same mapping
C13_StripRenumbers ==
    [][(StripCalled /\ LogicalsAre(initialLayout, nqubits + nancillae))
         => /\ LogicalsAre(initialLayout', nqubits' + nancillae')
            /\ \A p \in DOMAIN initialLayout', q \in DOMAIN initialLayout' :
                  (initialLayout[p] < initialLayout[q])
                     <=> (initialLayout'[p] < initialLayout'[q])
            /\ \A p \in DOMAIN outputPermutation', q \in DOMAIN initialLayout' :
                  outputPermutation[p] = initialLayout[q]
                     => outputPermutation'[p] = initialLayout'[q]]_vars

\* C13 witness: a strip took the idle middle qubit of an imported circuit
\* away (qreg q[2]; qreg r[1]; CX q[0], r[0];) and the topmost logical index
\* moved down, in both layouts
C13_InteriorStripped ==
    /\ Returned /\ last.call = "stripIdleQubits"
    /\ ops = <<CXOp(2, 0, 2)>>
    /\ nqubits = 2
    /\ initialLayout = (0 :> 0 @@ 2 :> 1)
    /\ outputPermutation = (0 :> 0 @@ 2 :> 1)

-----------------------------------------------------------------------------
(* buildFunctionality and simulate on the DD port.  The kernel is seen through
   its calls: run.calls is the sequence of port calls (with one entry where
   the core enters reduceAncillae or the permutation adapter), an edge is an
   identifier, run.refs counts incRef minus decRef for each edge. *)

\* operations of the circuits a construction is run on, at most
MaxBuildOps == 2

\* append to the calls of a run
WithCalls(r, more) == [r EXCEPT !.calls = r.calls \o more]

\* the terminal edge DDone
DDone == -1

\* QuantumComputation::reduceAncillae(e, dd, regular): the recursion makes a
\* node for every level from the first ancillary one up to the root and calls
\* incRef on it before it returns it; its argument keeps the references it
\* has.  same: the kernel finds the root unchanged and hands back the edge given
reduceAncillae(r, c, same) ==
    LET Edge(levels, l) ==
            IF l = levels /\ same THEN r.e ELSE r.nextId + l - 1
        Refs(levels, inner) ==
            IncRef([id \in DOMAIN r.refs \cup inner |->
                       IF id \in inner THEN 1 ELSE r.refs[id]],
                   Edge(levels, levels))
        Reduced(first, levels) ==
            IF levels <= 0 THEN WithCalls(r, << <<"reduceAncillae">> >>)
            ELSE [r EXCEPT
                    !.e = Edge(levels, levels),
                    !.nextId = r.nextId + levels,
                    !.refs = Refs(levels, {Edge(levels, l) : l \in 1..(levels - 1)}),
                    !.calls = r.calls \o << <<"reduceAncillae">> >> \o
                        [j \in 1..(2 * levels) |->
                           IF j % 2 = 1
                           THEN <<"makeNonterminal", first + (j \div 2)>>
                           ELSE <<"incRef", Edge(levels, j \div 2)>>]]
        From(first) == Reduced(first, c.nqubits + c.nancillae - first)
    IN IF c.ancillary = {}
       THEN WithCalls(r, << <<"reduceAncillae">> >>)
       ELSE From(CHOOSE a \in c.ancillary : \A b \in c.ancillary : a <= b)

\* QuantumComputation::reduceAncillae(e, dd, varMap): every edge of the queue
\* is replaced in a local copy, incRef on the copy and decRef on the edge
\* taken from the queue; the edge of the caller stays as it is
reduceAncillaeVarMap(r, c) ==
    LET n == c.nqubits + c.nancillae
        Saved(l) == IF l = 1 THEN r.e ELSE r.nextId + 2 * (l - 1)
        Made(l) == r.nextId + 2 * (l - 1) + 1
        Ids == {Saved(l) : l \in 1..n} \cup {Made(l) : l \in 1..n}
        NetCount(id) == (IF id \in DOMAIN r.refs THEN r.refs[id] ELSE 0)
                       + (IF \E l \in 1..n : id = Made(l) THEN 1 ELSE 0)
                       - (IF \E l \in 1..n : id = Saved(l) THEN 1 ELSE 0)
    IN IF r.vmap[n - 1] >= c.nqubits
       THEN [r EXCEPT
               !.nextId = r.nextId + 2 * n,
               !.refs = [id \in DOMAIN r.refs \cup Ids |->
                           IF id \in Ids THEN NetCount(id) ELSE r.refs[id]],
               !.calls = r.calls \o << <<"reduceAncillae">> >> \o
                   [j \in 1..(3 * n) |->
                      CASE j % 3 = 1 -> <<"makeNonterminal", n - 1 - ((j - 1) \div 3)>>
                        [] j % 3 = 2 -> <<"incRef", Made((j + 1) \div 3)>>
                        [] OTHER -> <<"decRef", Saved(j \div 3)>>]
                   \o << <<"garbageCollect">> >>]
       ELSE WithCalls(r, << <<"reduceAncillae">>, <<"garbageCollect">> >>)

\* QuantumComputation::createInitialMatrix: makeIdent, incRef, reduceAncillae;
\* the identity loses its ancillary half, so the reduced root is a new edge
createInitialMatrix(r, c) ==
    reduceAncillae(
        [r EXCEPT !.e = r.nextId, !.nextId = r.nextId + 1,
                  !.refs = IncRef(r.refs, r.nextId),
                  !.calls = r.calls \o
                      << <<"makeIdent", 0, c.nqubits + c.nancillae - 1>>,
                         <<"incRef", r.nextId>> >>],
        c, FALSE)

\* dd->dynamicReorder(e, varMap, strat): the variable order afterwards and, if
\* the root moved, the new edge, which takes over the references of the old
dynamicReorder(r, vm, moved) ==
    IF moved
    THEN [r EXCEPT !.e = r.nextId, !.nextId = r.nextId + 1, !.vmap = vm,
                   !.refs = MapSet(MapSet(r.refs, r.nextId, r.refs[r.e]), r.e, 0),
                   !.calls = r.calls \o << <<"dynamicReorder", r.e>> >>]
    ELSE [r EXCEPT !.vmap = vm,
                   !.calls = r.calls \o << <<"dynamicReorder", r.e>> >>]

\* the variable orders a reordering of the n variables of the circuit may
\* leave: the standard one and its reverse
Reorderings(n) ==
    {standardPermutation, [k \in Keys |-> IF k < n THEN n - 1 - k ELSE k]}

\* a loop that multiplies the operation from the right
OpMultipliedRight(r, i) ==
    [r EXCEPT
       !.e = r.nextId, !.nextId = r.nextId + 1, !.i = i + 1,
       !.refs = DecRef(IncRef(r.refs, r.nextId), r.e),
       !.calls = r.calls \o << <<"multiply", "right", "op", i>>,
                               <<"incRef", r.nextId>>, <<"decRef", r.e>> >>]

\* tmp = multiply(op->getDD(...), e); incRef(tmp); decRef(e); e = tmp
OpMultiplied(r, i) ==
    [r EXCEPT
       !.e = r.nextId, !.nextId = r.nextId + 1, !.i = i + 1,
       !.refs = DecRef(IncRef(r.refs, r.nextId), r.e),
       !.calls = r.calls \o << <<"multiply", "left", "op", i>>,
                               <<"incRef", r.nextId>>, <<"decRef", r.e>> >>]

\* a call of buildFunctionality or simulate, with or without a reordering
\* strategy; simulate is handed the edge 0
BuildCall(call, reorder, c) ==
    [kind |-> "build", call |-> call, pc |-> "begin", reorder |-> reorder,
     regular |-> TRUE, from0 |-> c.initialLayout, map |-> c.initialLayout,
     to |-> c.outputPermutation, vmap |-> standardPermutation, k |-> 1, i |-> 1,
     e |-> 0, nextId |-> 1, refs |-> EmptyMap, calls |-> <<>>]

\* the gate statements of the circuits a construction is run on
BuildGates == {"U", "CX"}
BuildGateLists == UNION {[1..n -> BuildGates] : n \in 0..MaxBuildOps}
BuildLayouts == {NoComment, <<0, 1>>, <<1, 0>>}

\* the circuit import() leaves for a file "qreg q[nq]; <gates> // i .. // o ..",
\* with an ancillary register of na qubits added to it
BuildCircuit(nq, gates, ilist, olist, na) ==
    LET Gate(c, g) == IF g = "U" THEN GateU(c, <<0, 1>>)
                      ELSE GateCX(c, <<0, 1>>, <<1, 1>>)
        Gates(c) == [c EXCEPT !.ops = [i \in 1..Len(gates) |-> Gate(c, gates[i])]]
        Ancillae(out) ==
            IF na = 0 \/ out.status # "ok" THEN out
            ELSE addAncillaryRegister(out.c, na, DEFAULT_ANCREG)
        Declared(c) == Ancillae(QasmFinish(Gates(c), ilist, olist))
    IN IF nq = 0 THEN Ancillae(Outcome(ResetCircuit, "ok", <<>>))
       ELSE Declared(QasmQreg(ResetCircuit, DEFAULT_QREG, nq).c)

InitBuild ==
    /\ \E nq \in 0..MaxReg, na \in 0..1, gates \in BuildGateLists :
       \E ilist \in BuildLayouts, olist \in BuildLayouts :
       \E call \in {"buildFunctionality", "simulate"}, reorder \in BOOLEAN :
          LET On(out) ==
                  /\ out.status = "ok"
                  /\ nqubits = out.c.nqubits /\ nancillae = out.c.nancillae
                  /\ nclassics = out.c.nclassics
                  /\ qregs = out.c.qregs /\ cregs = out.c.cregs
                  /\ ancregs = out.c.ancregs
                  /\ initialLayout = out.c.initialLayout
                  /\ outputPermutation = out.c.outputPermutation
                  /\ ancillary = out.c.ancillary /\ garbage = out.c.garbage
                  /\ ops = out.c.ops
                  /\ run = BuildCall(call, reorder, out.c)
          IN /\ nq = 0 => (gates = <<>> /\ ilist = NoComment /\ olist = NoComment)
             /\ nq < 2 => \A i \in 1..Len(gates) : gates[i] = "U"
             /\ On(BuildCircuit(nq, gates, ilist, olist, na))
    /\ mode = "idle" /\ varMap = EmptyMap /\ ncalls = 0
    /\ last = Call("import", "ok", <<"qasm">>)

InBuild(pc) == run.kind = "build" /\ run.pc = pc

\* the call up to its loop over the operations
BuildBegin ==
    /\ InBuild("begin")
    /\ run' = IF run.call = "simulate"
              THEN [run EXCEPT !.pc = "loop", !.refs = IncRef(run.refs, run.e),
                               !.calls = << <<"setMode", "Vector">>,
                                            <<"incRef", run.e>> >>]
              ELSE IF nqubits + nancillae = 0
              THEN [run EXCEPT !.pc = "done", !.e = DDone]
              ELSE [createInitialMatrix(
                        WithCalls(run, << <<"setMode", "Matrix">> >>), Circuit)
                      EXCEPT !.pc = "loop"]
    /\ UNCHANGED object

\* one iteration of the loop over the operations
BuildOp ==
    /\ InBuild("loop") /\ run.i <= Len(ops)
    /\ IF ~run.reorder
       THEN run' = WithCalls(OpMultiplied(run, run.i), << <<"garbageCollect">> >>)
       ELSE IF ops[run.i].type \notin {"Standard", "Compound"}   \* !isUnitary()
       THEN run' = [run EXCEPT !.pc = "throw"]
       ELSE \E vm \in Reorderings(nqubits + nancillae), moved \in BOOLEAN :
               run' = dynamicReorder(OpMultiplied(run, run.i), vm, moved)
    /\ UNCHANGED object

\* after the last operation the adapter is called with to = outputPermutation
BuildAdapt ==
    /\ InBuild("loop") /\ run.i > Len(ops)
    /\ run' = [WithCalls(run, << <<IF run.reorder THEN "changePermutation2"
                                ELSE "changePermutation", outputPermutation>> >>)
                 EXCEPT !.pc = "enter"]
    /\ UNCHANGED object

\* what follows the adapter, and the return
BuildReduce ==
    /\ InBuild("reduce")
    /\ IF ~run.reorder
       THEN \E same \in BOOLEAN :
               run' = [reduceAncillae(run, Circuit, same) EXCEPT !.pc = "done"]
       ELSE \E vm \in Reorderings(nqubits + nancillae), moved \in BOOLEAN :
               run' = [(IF run.call = "simulate"
                        THEN dynamicReorder(run, vm, moved)
                        ELSE reduceAncillaeVarMap(dynamicReorder(run, vm, moved),
                                                  Circuit))
                         EXCEPT !.pc = "done"]
    /\ UNCHANGED object

NextBuild ==
    \/ BuildBegin \/ BuildOp \/ BuildAdapt
    \/ AdapterEnter \/ AdapterStep \/ AdapterReturn
    \/ BuildReduce

SpecBuild == InitBuild /\ [][NextBuild]_vars

\* the call has returned
BuildReturned == InBuild("done")

\* C14: when buildFunctionality or simulate returns, every edge the core
\* called incRef on, the returned one apart, has been decRef'd as often: the
\* only reference the core still holds is on the returned edge
C14_ReferencesBalanced ==
    BuildReturned
        => \A id \in DOMAIN run.refs :
              IF id = run.e THEN run.refs[id] >= 1 ELSE run.refs[id] = 0

\* where in the calls cs the call c is made / a call named in heads is made
CallsOf(cs, c) == {j \in 1..Len(cs) : cs[j] = c}
CallsNamed(cs, heads) == {j \in 1..Len(cs) : cs[j][1] \in heads}

\* the calls cs of a construction over nops operations follow the contract:
\* the identity is made and reduced, every operation is multiplied from the
\* left once, in order, and a call named in follow comes after it before the
\* next one and before the adapter; the adapter is entered once, with `to`,
\* after the last operation, and an ancilla reduction comes after it
ConstructionOrder(cs, nops, to, follow) ==
    LET Op(i) == CallsOf(cs, <<"multiply", "left", "op", i>>)
        OpsAnySide == {j \in CallsNamed(cs, {"multiply"}) : cs[j][3] = "op"}
        Reductions == CallsOf(cs, <<"reduceAncillae">>)
        Adapter == CallsNamed(cs, {"changePermutation", "changePermutation2"})
        Followed(m, next) ==
            \E g \in CallsNamed(cs, follow) : m < g /\ \A n \in next : g < n
    IN /\ Cardinality(CallsNamed(cs, {"makeIdent"})) = 1
       /\ \E r \in Reductions :
             /\ \A j \in CallsNamed(cs, {"makeIdent"}) : j < r
             /\ \A j \in OpsAnySide \cup Adapter : r < j
       /\ Cardinality(OpsAnySide) = nops
       /\ \A i \in 1..nops :
             /\ Cardinality(Op(i)) = 1
             /\ \A m \in Op(i) :
                   Followed(m, IF i < nops THEN Op(i + 1) ELSE Adapter)
       /\ Cardinality(Adapter) = 1
       /\ \A a \in Adapter :
             /\ cs[a][2] = to
             /\ \A m \in OpsAnySide : m < a
             /\ \E r \in Reductions : a < r

\* buildFunctionality, with or without a reordering strategy, has returned an
\* edge it built
FunctionalityBuilt ==
    BuildReturned /\ run.call = "buildFunctionality" /\ nqubits + nancillae > 0

-----------------------------------------------------------------------------
(* Parser::GateDecl and Parser::Gate on the table of declared gates.  A gate
   name is the sequence of its characters; a table entry holds the formal
   argument names and the body, a sequence of U and CX gates on formals; an
   argument is <<first, size>> as ArgumentQreg returns it. *)

\* gates of a declared body, declarations and applications of a file, at most
MaxBody == 2
MaxDecls == 2
MaxApps == 1

Ugate(target) == [kind |-> "U", target |-> target]
CXgate(control, target) == [kind |-> "CX", control |-> control, target |-> target]

\* the gate name without its leading 'c' characters, and how many there were
StripControls(name) ==
    LET Stripped(k) == <<k, SubSeq(name, k + 1, Len(name))>>
    IN Stripped(Cardinality({j \in 1..Len(name) :
                                \A i \in 1..j : name[i] = "c"}))

\* Parser::GateDecl: the declaration is skipped when the name without its
\* leading 'c's is declared with at most one gate
GateDecl(compoundGates, gateName, argumentNames, gates) ==
    LET Declared(cGateName) ==
            IF cGateName \in DOMAIN compoundGates
               /\ Len(compoundGates[cGateName].gates) <= 1
            THEN compoundGates
            ELSE MapSet(compoundGates, gateName,
                        [argumentNames |-> argumentNames, gates |-> gates])
    IN Declared(StripControls(gateName)[2])

RECURSIVE Flatten(_)
\* the operations emplaced one body gate after the other
Flatten(seqs) == IF seqs = <<>> THEN <<>> ELSE Head(seqs) \o Flatten(Tail(seqs))

\* the qubit the CX validity check reports: the first index of the control
\* range that lies in the target range
DuplicateIndex(control, target) ==
    CHOOSE q \in control[1]..(control[1] + control[2] - 1) :
        /\ q \in target[1]..(target[1] + target[2] - 1)
        /\ \A r \in control[1]..(q - 1) :
              r \notin target[1]..(target[1] + target[2] - 1)

\* what Gate() ends in: an operation returned, a parser error, or an
\* undefined read
Returns(op) == [status |-> "ok", error |-> <<>>, op |-> op]
Fails(error) == [status |-> "throw", error |-> error, op |-> ParserError]
Undefined == [status |-> "undefined", error |-> <<>>, op |-> ParserError]

\* Parser::Gate, cxgate branch, with the error it reports
GateCXChecked(c, arguments) ==
    IF Len(arguments) # 2 THEN Fails(<<"Syntax">>)
    ELSE IF CXOverlap(arguments[1], arguments[2])
    THEN Fails(<<"DuplicateQubit", DuplicateIndex(arguments[1], arguments[2])>>)
    ELSE IF GateCX(c, arguments[1], arguments[2]) = ParserError
    THEN Fails(<<"RegisterSizeMismatch">>)
    ELSE Returns(GateCX(c, arguments[1], arguments[2]))

\* Parser::Gate, identifier branch (lines 399-684), on the table compoundGates;
\* benign: an undefined read of the table's end() sees an empty body
GateIdentifier(c, compoundGates, gateName, arguments, benign) ==
    LET ncontrols == StripControls(gateName)[1]
        cGateName == StripControls(gateName)[2]
        gateFound == gateName \in DOMAIN compoundGates
        cGateFound == cGateName \in DOMAIN compoundGates
        Slices == {i \in 1..Len(arguments) : arguments[i][2] > 1}
        size == IF Slices = {} THEN 1
                ELSE arguments[CHOOSE i \in Slices : \A j \in Slices : j <= i][2]
        SizesDiffer ==
            \E i \in Slices, j \in Slices : arguments[i][2] # arguments[j][2]
        argumentNames == compoundGates[gateName].argumentNames
        \* argMap.at(name) of the direct path; the later of two equal formals wins
        ArgOf(formal) ==
            arguments[CHOOSE i \in 1..Len(argumentNames) :
                         /\ argumentNames[i] = formal
                         /\ \A j \in (i + 1)..Len(argumentNames) :
                               argumentNames[j] # formal]
        \* lines 580-620: the operations one body gate contributes
        UOps(target) ==
            [j \in 1..target[2] |->
               StandardOperation(c.nqubits, <<>>, <<target[1] + j - 1>>, "U3")]
        CXShape(control, target) ==
            control[2] = 1 \/ target[2] = 1 \/ control[2] = target[2]
        CXOps(control, target) ==
            IF control[2] = 1 /\ target[2] = 1
            THEN <<CXOp(c.nqubits, control[1], target[1])>>
            ELSE IF control[2] = target[2]
            THEN [j \in 1..target[2] |->
                    CXOp(c.nqubits, control[1] + j - 1, target[1] + j - 1)]
            ELSE IF control[2] = 1
            THEN [j \in 1..target[2] |-> CXOp(c.nqubits, control[1], target[1] + j - 1)]
            ELSE [j \in 1..control[2] |-> CXOp(c.nqubits, control[1] + j - 1, target[1])]
        GateOps(gate) ==
            IF gate.kind = "U" THEN UOps(ArgOf(gate.target))
            ELSE CXOps(ArgOf(gate.control), ArgOf(gate.target))
        GateError(gate) ==
            IF gate.kind = "U" THEN <<>>
            ELSE IF CXOverlap(ArgOf(gate.control), ArgOf(gate.target))
            THEN <<"DuplicateQubit",
                   DuplicateIndex(ArgOf(gate.control), ArgOf(gate.target))>>
            ELSE IF ~CXShape(ArgOf(gate.control), ArgOf(gate.target))
            THEN <<"RegisterSizeMismatch">>
            ELSE <<>>
        \* the loop over the body: the first gate in error ends it
        Expanded(gates) ==
            IF \E i \in 1..Len(gates) : GateError(gates[i]) # <<>>
            THEN Fails(GateError(gates[CHOOSE i \in 1..Len(gates) :
                                          /\ GateError(gates[i]) # <<>>
                                          /\ \A j \in 1..(i - 1) :
                                                GateError(gates[j]) = <<>>]))
            ELSE Returns(CompoundOperation(
                             c.nqubits,
                             Flatten([i \in 1..Len(gates) |-> GateOps(gates[i])])))
        \* lines 562-578: a body of one gate on scalar arguments is returned as
        \* that one operation, unchecked
        Body(gates) ==
            IF Len(gates) = 1 /\ gates[1].kind = "U" /\ ArgOf(gates[1].target)[2] = 1
            THEN Returns(UOps(ArgOf(gates[1].target))[1])
            ELSE IF Len(gates) = 1 /\ gates[1].kind = "CX"
                    /\ ArgOf(gates[1].control)[2] = 1
                    /\ ArgOf(gates[1].target)[2] = 1
            THEN Returns(CXOp(c.nqubits, ArgOf(gates[1].control)[1],
                              ArgOf(gates[1].target)[1]))
            ELSE Expanded(gates)
        \* lines 529-557: the single controlled operation
        Controlled(controls, target, cGate) ==
            IF cGateName = <<"x">> /\ ncontrols > 1
            THEN Returns(StandardOperation(c.nqubits, PosControls(controls),
                                           <<target>>, "X"))
            ELSE IF cGate.kind = "U"
            THEN Returns(StandardOperation(c.nqubits, PosControls(controls),
                                           <<target>>, "U3"))
            ELSE Fails(<<"CastToUGate">>)
        \* the table holds gateName
        Direct ==
            IF Len(argumentNames) # Len(arguments) THEN Fails(<<"ArgumentCount">>)
            ELSE IF SizesDiffer THEN Fails(<<"RegisterSizeMismatch">>)
            ELSE IF ~(ncontrols > 0 /\ size = 1)
            THEN Body(compoundGates[gateName].gates)
            ELSE IF ~cGateFound      \* cGateIt->second at end()
            THEN IF benign THEN Body(compoundGates[gateName].gates) ELSE Undefined
            ELSE IF Len(compoundGates[cGateName].gates) # 1
            THEN Body(compoundGates[gateName].gates)
            ELSE IF ncontrols > Len(argumentNames)   \* argumentNames[j] beyond the end
            THEN Undefined
            ELSE Controlled([j \in 1..ncontrols |-> ArgOf(argumentNames[j])[1]],
                            ArgOf(argumentNames[Len(argumentNames)])[1],
                            compoundGates[cGateName].gates[1])
        \* the table holds cGateName only
        Inferred ==
            IF Len(compoundGates[cGateName].gates) > 1 THEN Fails(<<"UndefinedGate">>)
            ELSE IF Len(arguments) #
                      ncontrols + Len(compoundGates[cGateName].argumentNames)
            THEN Fails(<<"ArgumentCount">>)
            ELSE IF SizesDiffer THEN Fails(<<"RegisterSizeMismatch">>)
            ELSE IF size > 1 THEN Fails(<<"CtrlRegisterUnsupported">>)
            ELSE IF Len(compoundGates[cGateName].gates) = 1
            THEN Controlled([j \in 1..ncontrols |-> arguments[j][1]],
                            arguments[ncontrols + 1][1],
                            compoundGates[cGateName].gates[1])
            \* an empty body: the loop over gateIt->second.gates at end()
            ELSE IF benign THEN Returns(CompoundOperation(c.nqubits, <<>>))
            ELSE Undefined
    IN IF gateFound THEN Direct
       ELSE IF cGateFound THEN Inferred
       ELSE Fails(<<"UndefinedGate">>)

\* Parser::Gate on the symbol read
Gate(c, compoundGates, sym, gateName, arguments, benign) ==
    IF sym = "cxgate" THEN GateCXChecked(c, arguments)
    ELSE GateIdentifier(c, compoundGates, gateName, arguments, benign)

\* the names, formals, bodies and arguments of the files explored
GateNames == {<<"g">>, <<"c", "g">>, <<"c", "c", "g">>}
FormalLists == {<<"a">>, <<"a", "b">>}
BodyGates(formals) ==
    {Ugate(f) : f \in SeqRange(formals)}
        \cup {CXgate(f, g) : f \in {"a"} \cap SeqRange(formals),
                             g \in {"b"} \cap SeqRange(formals)}
Bodies(formals) == UNION {[1..n -> BodyGates(formals)] : n \in 0..MaxBody}
GateArgs == {<<0, 2>>, <<2, 2>>, <<0, 1>>, <<1, 1>>}
GateArgLists == UNION {[1..n -> GateArgs] : n \in 1..3}

\* importOpenQASM after "qreg q[2]; qreg r[2];", no gate declared yet
InitGate ==
    /\ nqubits = 4 /\ nancillae = 0 /\ nclassics = 0
    /\ qregs = ("q" :> <<0, 2>> @@ "r" :> <<2, 2>>)
    /\ cregs = EmptyMap /\ ancregs = EmptyMap
    /\ initialLayout = EmptyMap /\ outputPermutation = EmptyMap
    /\ ancillary = {} /\ garbage = {}
    /\ ops = <<>>
    /\ mode = "qasm"
    /\ varMap = EmptyMap
    /\ last = Call("import", "running", <<"qasm">>)
    /\ ncalls = 0
    /\ run = [kind |-> "parser", compoundGates |-> EmptyMap, ndecls |-> 0]

\* gate <name> <formals> { <body> }
GateDeclStmt ==
    /\ mode = "qasm" /\ run.kind = "parser" /\ run.ndecls < MaxDecls
    /\ \E gateName \in GateNames, formals \in FormalLists :
       \E gates \in Bodies(formals) :
          run' = [run EXCEPT
                    !.compoundGates = GateDecl(@, gateName, formals, gates),
                    !.ndecls = @ + 1]
    /\ UNCHANGED object

\* a gate application: ops.emplace_back(p.Qop())
GateStmt ==
    /\ mode = "qasm" /\ run.kind = "parser" /\ ncalls < MaxApps
    /\ \E sym \in {"cxgate", "identifier"}, gateName \in GateNames :
       \E arguments \in GateArgLists, benign \in BOOLEAN :
          LET Applied(r) ==
                  /\ Install(IF r.status = "ok" THEN Emplace(Circuit, r.op)
                             ELSE Circuit)
                  /\ mode' = IF r.status = "ok" THEN "qasm" ELSE ModeAfter(r.status)
                  /\ last' = Call("Gate", r.status,
                                  <<sym, gateName, arguments, r.error>>)
                  /\ ncalls' = ncalls + 1
                  /\ UNCHANGED varMap
          IN /\ sym = "cxgate" => (gateName = <<"g">> /\ benign)
             /\ Applied(Gate(Circuit, run.compoundGates, sym, gateName,
                             arguments, benign))

NextGate == GateDeclStmt \/ GateStmt

SpecGate == InitGate /\ [][NextGate]_vars

\* a gate application was read: its symbol, name, arguments and error are in
\* last'.ret, the table is the one of the parser
GateApplied ==
    /\ mode = "qasm" /\ run.kind = "parser"
    /\ last'.call = "Gate" /\ ncalls' = ncalls + 1

IdentifierApplied == GateApplied /\ last'.ret[1] = "identifier"

\* the Standard operations the statement appended, in order
Emitted ==
    IF Len(ops') = Len(ops) THEN <<>>
    ELSE IF ops'[Len(ops')].type = "Standard" THEN <<ops'[Len(ops')]>>
    ELSE ops'[Len(ops')].sub

\* the statement failed with the error and appended nothing
Rejected(error) ==
    last'.status = "throw" /\ last'.ret[4] = error /\ ops' = ops

AllScalar(arguments) == \A i \in 1..Len(arguments) : arguments[i][2] = 1

\* the argument bound to a formal
BoundTo(entry, arguments, formal) ==
    arguments[CHOOSE i \in 1..Len(entry.argumentNames) :
                 entry.argumentNames[i] = formal]

\* the control and target ranges a body CX is bound to share a qubit
BoundCXOverlaps(entry, arguments, gate) ==
    /\ gate.kind = "CX"
    /\ CXOverlap(BoundTo(entry, arguments, gate.control),
                 BoundTo(entry, arguments, gate.target))

\* a body gate on its bound arguments, i added to the base of every slice
BodyGateAt(entry, arguments, gate, i) ==
    LET At(arg) == arg[1] + (IF arg[2] > 1 THEN i ELSE 0)
    IN IF gate.kind = "U"
       THEN StandardOperation(nqubits, <<>>,
                              <<At(BoundTo(entry, arguments, gate.target))>>, "U3")
       ELSE CXOp(nqubits, At(BoundTo(entry, arguments, gate.control)),
                 At(BoundTo(entry, arguments, gate.target)))

\* the body emitted s times: for i = 0..s-1 in order every body gate once
ExpansionOf(entry, arguments, s) ==
    [n \in 1..(s * Len(entry.gates)) |->
       BodyGateAt(entry, arguments,
                  entry.gates[((n - 1) % Len(entry.gates)) + 1],
                  (n - 1) \div Len(entry.gates))]

\* the application fits the declared gate: as many arguments as formals, and
\* no body CX bound to overlapping arguments
FitsEntry(entry, arguments) ==
    /\ Len(arguments) = Len(entry.argumentNames)
    /\ \A i \in 1..Len(entry.gates) :
          ~BoundCXOverlaps(entry, arguments, entry.gates[i])

\* C16: an application naming G emits the expansion of G's own body bound to
\* G's formals if the table contains G, whatever G without its leading 'c's
\* names; if G is absent and the stripped name is declared with a body of one
\* gate, the inferred controlled operation is emitted; in every other case
\* (neither name declared, or the stripped name declared with an empty or a
\* longer body and applied to fitting scalar arguments) the statement fails
\* with UndefinedGate and appends no operation
C16_ResolutionOrder ==
    [][IdentifierApplied =>
         LET G == last'.ret[2]
             base == StripControls(last'.ret[2])[2]
             ncontrols == StripControls(last'.ret[2])[1]
             arguments == last'.ret[3]
             table == run.compoundGates
         IN /\ (/\ G \in DOMAIN table
                /\ AllScalar(arguments)
                /\ FitsEntry(table[G], arguments))
                 => /\ last'.status = "ok"
                    /\ Emitted = ExpansionOf(table[G], arguments, 1)
            /\ (/\ G \notin DOMAIN table /\ base \in DOMAIN table
                /\ Len(table[base].gates) = 1)
                 => /\ last'.ret[4] # <<"UndefinedGate">>
                    /\ last'.status = "ok"
                         => /\ Len(Emitted) = 1
                            /\ Len(Emitted[1].controls) = ncontrols
            /\ (G \notin DOMAIN table /\ base \notin DOMAIN table)
                 => Rejected(<<"UndefinedGate">>)
            /\ (/\ G \notin DOMAIN table /\ base \in DOMAIN table
                /\ Len(table[base].gates) # 1
                /\ AllScalar(arguments)
                /\ Len(arguments) = ncontrols + Len(table[base].argumentNames))
                 => Rejected(<<"UndefinedGate">>)]_vars

\* the length of the slices among the arguments (1: none)
SliceLength(arguments) ==
    IF AllScalar(arguments) THEN 1
    ELSE arguments[CHOOSE i \in 1..Len(arguments) : arguments[i][2] > 1][2]

\* C17: a table-gate application with a slice of length s > 1 among its
\* arguments (all slices of length s) emits the whole body s times, for
\* i = 0..s-1 in order every body gate once with i added to each slice base
\* and the scalar arguments as they are: s times the body length operations
C17_BodyEmittedPerSliceIndex ==
    [][(/\ IdentifierApplied
        /\ last'.ret[2] \in DOMAIN run.compoundGates
        /\ ~AllScalar(last'.ret[3])
        /\ \A i \in 1..Len(last'.ret[3]) :
              last'.ret[3][i][2] \in {1, SliceLength(last'.ret[3])}
        /\ last'.status = "ok")
         => /\ Emitted = ExpansionOf(run.compoundGates[last'.ret[2]], last'.ret[3],
                                     SliceLength(last'.ret[3]))
            /\ Len(Emitted) = SliceLength(last'.ret[3])
                                * Len(run.compoundGates[last'.ret[2]].gates)]_vars

\* C18: an inferred controlled application (G not in the table, the stripped
\* name declared with one gate, k + |formals| arguments) on scalar arguments
\* emits exactly one Standard operation, its controls the first k arguments
\* and its target the last one; with a slice among the arguments it fails
\* with CtrlRegisterUnsupported and emits nothing
C18_InferredControlled ==
    [][IdentifierApplied =>
         LET G == last'.ret[2]
             base == StripControls(last'.ret[2])[2]
             k == StripControls(last'.ret[2])[1]
             arguments == last'.ret[3]
             table == run.compoundGates
         IN (/\ G \notin DOMAIN table /\ base \in DOMAIN table
             /\ Len(table[base].gates) = 1
             /\ Len(arguments) = k + Len(table[base].argumentNames))
              => IF AllScalar(arguments)
                 THEN /\ last'.status = "ok"
                      /\ Len(Emitted) = 1
                      /\ Emitted[1].controls =
                            PosControls([j \in 1..k |-> arguments[j][1]])
                      /\ Emitted[1].targets = <<arguments[Len(arguments)][1]>>
                 ELSE Rejected(<<"CtrlRegisterUnsupported">>)]_vars

\* C19: a CX application, native or in the body of a table gate, whose control
\* range and target range share an index is rejected with DuplicateQubit
\* naming a shared index, and nothing is appended for the statement
C19_OverlappingCXRejected ==
    [][GateApplied =>
         LET G == last'.ret[2]
             arguments == last'.ret[3]
             table == run.compoundGates
             NamesShared(control, target) ==
                 /\ last'.status = "throw" /\ ops' = ops
                 /\ Len(last'.ret[4]) = 2 /\ last'.ret[4][1] = "DuplicateQubit"
                 /\ last'.ret[4][2] \in control[1]..(control[1] + control[2] - 1)
                 /\ last'.ret[4][2] \in target[1]..(target[1] + target[2] - 1)
         IN IF last'.ret[1] = "cxgate"
            THEN (Len(arguments) = 2 /\ CXOverlap(arguments[1], arguments[2]))
                    => NamesShared(arguments[1], arguments[2])
            ELSE (/\ G \in DOMAIN table
                  /\ Len(arguments) = Len(table[G].argumentNames))
                    => \A i \in 1..Len(table[G].gates) :
                          BoundCXOverlaps(table[G], arguments, table[G].gates[i])
                            => /\ last'.status = "throw" /\ ops' = ops
                               /\ Len(last'.ret[4]) = 2
                               /\ last'.ret[4][1] = "DuplicateQubit"]_vars

\* the gate line "t<n> labels" was read in this step
RealGateRead(n, labels) ==
    /\ mode = "real_gates" /\ MoreOps
    /\ Statement(RealGate(Circuit, n, labels), "real_gates")

\* the first names of the line, as many as the gate takes, are declared
\* variables, the last of them written without '-'
AllDeclared(n, labels) ==
    /\ \A k \in 1..n : labels[k][1] \in DOMAIN qregs
    /\ ~labels[n][2]

\* C20: a REAL gate line t<n> v1 ... vn with 1 <= n <= nqubits and every vi a
\* declared variable appends exactly one Standard X operation, its controls
\* v1..v(n-1) in order, negative exactly for the names written with '-', its
\* target vn; a line with fewer than n names, or with a name among them that
\* is not declared, is rejected with an error and appends nothing
C20_RealToffoliLine ==
    [][mode = "real_gates" =>
       \A n \in 1..MAX_QUBITS, labels \in LabelLists :
         RealGateRead(n, labels) =>
           /\ (n <= nqubits /\ Len(labels) = n /\ AllDeclared(n, labels))
                => /\ mode' = "real_gates"
                   /\ ops' = Append(ops,
                         StandardOperation(
                           nqubits,
                           [k \in 1..(n - 1) |->
                              Control(qregs[labels[k][1]][1], labels[k][2])],
                           <<qregs[labels[n][1]][1]>>, "X"))
           /\ (Len(labels) < n
                 \/ (Len(labels) = n /\ ~AllDeclared(n, labels)))
                => /\ mode' = "idle" /\ last'.status = "throw"
                   /\ ops' = ops]_vars

\* "t3 b -a c" was read after ".variables a b c"
C20_ToffoliAppended ==
    /\ mode = "real_gates" /\ nqubits = 3
    /\ ops = <<StandardOperation(3, <<Control(1, FALSE), Control(0, TRUE)>>,
                                 <<2>>, "X")>>

-----------------------------------------------------------------------------
(* readRealHeader, word by word: the header of a REAL file as its lines,   *)
(* each line the command word it starts with and what follows it           *)

\* lines of a header at most
MaxLines == 3

\* a line: its command word, the number after it, the names after it
HeaderLine(cmd, n, names) == [cmd |-> cmd, n |-> n, names |-> names]

HeaderLines ==
    {HeaderLine(".NUMVARS", 2, <<>>), HeaderLine(".VARIABLES", 0, <<"a", "b">>),
     HeaderLine(".VERSION", 0, <<>>), HeaderLine(".DEFINE", 0, <<>>),
     HeaderLine(".ENDDEFINE", 0, <<>>), HeaderLine(".BEGIN", 0, <<>>),
     HeaderLine("#", 0, <<>>), HeaderLine("T1", 0, <<>>)}

HeaderFiles == UNION {[1..n -> HeaderLines] : n \in 0..MaxLines}

\* import(is, Real) on a new circuit has entered readRealHeader. file: the
\* lines of the stream; at: how many of them have had their command word
\* read; cmd: the local variable cmd; fail: the stream has failed and nothing
\* is extracted from it any more
InitHeader ==
    /\ nqubits = 0 /\ nancillae = 0 /\ nclassics = 0
    /\ qregs = EmptyMap /\ cregs = EmptyMap /\ ancregs = EmptyMap
    /\ initialLayout = EmptyMap /\ outputPermutation = EmptyMap
    /\ ancillary = {} /\ garbage = {}
    /\ ops = <<>>
    /\ mode = "real_header"
    /\ varMap = EmptyMap
    /\ last = Call("import", "running", <<"real">>)
    /\ ncalls = 0
    /\ \E file \in HeaderFiles :
          run = [kind |-> "header", file |-> file, at |-> 0, cmd |-> "",
                 fail |-> FALSE, pc |-> "command"]

InHeader(pc) == run.kind = "header" /\ run.pc = pc

\* the header command read, on the circuit
HeaderCommandOn(c, line) ==
    IF line.cmd = ".NUMVARS" THEN RealNumvars(c, line.n)
    ELSE IF line.cmd = ".VARIABLES" THEN RealVariables(c, line.names)
    ELSE IF line.cmd \in {".VERSION", ".BEGIN", ".DEFINE", "#"}
    THEN Outcome(c, "ok", <<>>)
    ELSE Outcome(c, "throw", <<>>)

\* one iteration of the while (true) loop of readRealHeader: is >> cmd, then
\* the command; without a word left "Invalid file header" is thrown
HeaderCommand ==
    /\ InHeader("command")
    /\ LET Read(out, pc, at) ==
               /\ run' = [run EXCEPT
                            !.at = at, !.pc = pc,
                            !.fail = at = run.at,
                            !.cmd = IF at = run.at THEN @ ELSE run.file[at].cmd]
               /\ nqubits' = out.c.nqubits /\ nclassics' = out.c.nclassics
               /\ qregs' = out.c.qregs /\ cregs' = out.c.cregs
               /\ initialLayout' = out.c.initialLayout
               /\ outputPermutation' = out.c.outputPermutation
               /\ mode' = IF pc = "thrown" THEN "idle"
                          ELSE IF pc = "returned" THEN "real_gates"
                          ELSE "real_header"
               /\ last' = IF pc = "thrown" THEN Call("import", "throw", last.ret)
                          ELSE last
               /\ UNCHANGED <<nancillae, ancregs, ancillary, garbage, ops,
                              varMap, ncalls>>
           After(line, out) ==
               Read(out,
                    IF out.status # "ok" THEN "thrown"
                    ELSE IF line.cmd = ".BEGIN" THEN "returned"
                    ELSE IF line.cmd = ".DEFINE" THEN "define"
                    ELSE "command",
                    run.at + 1)
       IN IF run.at >= Len(run.file)
          THEN Read(Outcome(Circuit, "throw", <<>>), "thrown", run.at)
          ELSE After(run.file[run.at + 1],
                     HeaderCommandOn(Circuit, run.file[run.at + 1]))

\* one iteration of while (cmd != ".ENDDEFINE"): the rest of the line is
\* ignored and the next word is extracted into cmd; on a stream at its end
\* the extraction fails and cmd is left as it was
DefineSkip ==
    /\ InHeader("define")
    /\ IF run.at >= Len(run.file)
       THEN run' = [run EXCEPT !.fail = TRUE]
       ELSE run' = [run EXCEPT
                      !.at = @ + 1, !.cmd = run.file[run.at + 1].cmd,
                      !.pc = IF run.file[run.at + 1].cmd = ".ENDDEFINE"
                             THEN "command" ELSE "define"]
    /\ UNCHANGED object

NextHeader == HeaderCommand \/ DefineSkip

SpecHeader == InitHeader /\ [][NextHeader]_vars /\ WF_vars(NextHeader)

\* readRealHeader has returned at .begin or raised an error
HeaderDone == InHeader("returned") \/ InHeader("thrown")

\* C21: readRealHeader ends on every finite input, returning at .begin or
\* raising an error, also when a .define block is not closed before the end
\* of the input; skipping a .define block appends no operation and changes no
\* register
C21_HeaderTerminates ==
    /\ [][InHeader("define") => UNCHANGED <<ops, qregs, cregs, ancregs>>]_vars
    /\ <>HeaderDone

-----------------------------------------------------------------------------
(* TFC header *)

\* the header with these lines was read in this step
TfcHeaderRead(variables, inputs, outputs, constants) ==
    /\ mode = "tfc_header"
    /\ Statement(Outcome(readTFCHeader(Circuit, variables, inputs, outputs,
                                       constants).c,
                         readTFCHeader(Circuit, variables, inputs, outputs,
                                       constants).status, <<>>),
                 "tfc_gates")
    /\ varMap' = readTFCHeader(Circuit, variables, inputs, outputs, constants).vm

\* the positions of the variables that are no inputs, in the order of .v
ConstantPositions(variables, inputs) ==
    {q \in 0..(Len(variables) - 1) : variables[q + 1] \notin SeqRange(inputs)}

\* the value .c gives the variable at position q: the k-th value for the k-th
\* variable that is no input
ConstantOf(variables, inputs, constants, q) ==
    constants[Cardinality({r \in ConstantPositions(variables, inputs) : r <= q})]

-----------------------------------------------------------------------------
(* removeQubit and the registers *)

\* removeQubit was called and has returned; last'.ret = <<physical, output>>
RemoveReturned ==
    /\ mode = "idle" /\ ncalls' = ncalls + 1
    /\ last'.call = "removeQubit" /\ last'.status = "ok"

\* the names of the registers of a map that hold the physical index
Holding(regs, physical) == {n \in DOMAIN regs : InRange(regs[n], physical)}

RECURSIVE TotalLength(_)
\* the lengths of the registers of a map, added up
TotalLength(regs) ==
    IF DOMAIN regs = {} THEN 0
    ELSE LET First(n) == regs[n][2] + TotalLength(MapErase(regs, n))
         IN First(CHOOSE n \in DOMAIN regs : TRUE)

\* the register map after the register name = (base, length) lost offset k
WithoutOffset(regs, name, k) ==
    LET Edited(base, length) ==
            IF k = 0 /\ length = 1 THEN MapErase(regs, name)
            ELSE IF k = 0 THEN MapSet(regs, name, <<base + 1, length - 1>>)
            ELSE IF k = length - 1 THEN MapSet(regs, name, <<base, length - 1>>)
            ELSE MapSet(MapSet(MapErase(regs, name), name \o "_l", <<base, k>>),
                        name \o "_h", <<base + k + 1, length - k - 1>>)
    IN Edited(regs[name][1], regs[name][2])

-----------------------------------------------------------------------------
(* consolidateRegister *)

\* addQubit was called
AddCalled ==
    /\ mode = "idle" /\ ncalls' = ncalls + 1 /\ last'.call = "addQubit"

\* a pair X_l, X_h of the map with base(X_l) + length(X_l) = base(X_h)
FusiblePair(regs) ==
    \E low \in DOMAIN regs :
       /\ Len(low) > 2 /\ EndsWith(low, "_l")
       /\ SubSeq(low, 1, Len(low) - 1) \o "h" \in DOMAIN regs
       /\ regs[low][1] + regs[low][2]
             = regs[SubSeq(low, 1, Len(low) - 1) \o "h"][1]

\* the physical indices the registers of a map cover
Covered(regs) ==
    UNION {regs[n][1]..(regs[n][1] + regs[n][2] - 1) : n \in DOMAIN regs}

\* C24: consolidateRegister ends on every register map, the empty one
\* included: addQubit on a circuit without quantum registers returns and has
\* made the default register of one qubit; the map it was called on, and
\* every register map of the circuit it is applied to, has no pair X_l, X_h
\* with base(X_l) + length(X_l) = base(X_h) afterwards and covers the
\* indices it covered before
C24_ConsolidateTerminates ==
    [][AddCalled =>
         /\ mode' = "idle"
         /\ (last'.status = "ok" /\ qregs = EmptyMap)
              => \E q \in Phys : qregs' = (DEFAULT_QREG :> <<q, 1>>)
         /\ last'.status = "ok" => ~FusiblePair(qregs')
         /\ \A regs \in {qregs', ancregs'} \ {EmptyMap} :
               /\ ~FusiblePair(consolidateRegister(regs, TRUE).regs)
               /\ Covered(consolidateRegister(regs, TRUE).regs) = Covered(regs)]_vars

-----------------------------------------------------------------------------
(* The qubit count of the operations *)

\* C25: after every import and every circuit edit that returned, the qubit
\* count stored in every operation of ops is nqubits + nancillae
C25_OperationsCarryTotal ==
    (mode = "idle" /\ last.status = "ok")
       => \A i \in 1..Len(ops) : ops[i].nqubits = nqubits + nancillae

-----------------------------------------------------------------------------
(* Gate declarations *)

\* the declaration "gate gateName formals { gates }" was read in this step
GateDeclRead(gateName, formals, gates) ==
    /\ mode = "qasm" /\ run.kind = "parser" /\ run.ndecls < MaxDecls
    /\ run' = [run EXCEPT
                 !.compoundGates = GateDecl(@, gateName, formals, gates),
                 !.ndecls = @ + 1]
    /\ UNCHANGED object

\* C26: a declaration of the gate N leaves the gate table as it is exactly
\* when N is c^k base and base is declared with a body of one gate; in every
\* other case it maps N to the body of the declaration and changes no other
\* entry of the table
C26_DeclarationSkippedOrStored ==
    [][run.kind = "parser" =>
       \A gateName \in GateNames, formals \in FormalLists :
       \A gates \in Bodies(formals) :
         GateDeclRead(gateName, formals, gates) =>
           LET base == StripControls(gateName)[2]
               table == run.compoundGates
           IN IF base \in DOMAIN table /\ Len(table[base].gates) = 1
              THEN run'.compoundGates = table
              ELSE run'.compoundGates =
                     MapSet(table, gateName,
                            [argumentNames |-> formals, gates |-> gates])]_vars

-----------------------------------------------------------------------------
(* Expressions of the OpenQASM parser: Exp and RewriteExpr. Numbers are     *)
(* integers and the operators are the ones that stay within the integers:  *)
(* plus, minus, times and the sign; div, power and the unary functions are *)
(* folded by code of the same shape                                        *)

\* tokens of an expression at most
MaxTokens == 5

\* nullptr
Nil == [kind |-> "nil"]

Expr(kind, num, op1, op2, id) ==
    [kind |-> kind, num |-> num, op1 |-> op1, op2 |-> op2, id |-> id]

Number(num) == Expr("number", num, Nil, Nil, "")

\* what a parsing routine ends in: the expression and the position of sym,
\* or error("Invalid Expression")
Parsed(x, at) == [ok |-> TRUE, x |-> x, at |-> at]
Invalid == [ok |-> FALSE, x |-> Nil, at |-> 0]

\* the symbol the scanner is at
Sym(tokens, at) == IF at <= Len(tokens) THEN tokens[at] ELSE "eof"

\* x->num op y->num
Arith(kind, a, b) ==
    IF kind = "plus" THEN a + b ELSE IF kind = "minus" THEN a - b ELSE a * b

\* Term and Exp on two operands: the number when both are numbers, else a node
Binary(kind, x, y) ==
    IF x.kind = "number" /\ y.kind = "number"
    THEN [x EXCEPT !.num = Arith(kind, x.num, y.num)]
    ELSE Expr(kind, 0, x, y, "")

\* "-" in front of an operand
Negated(r) ==
    IF ~r.ok THEN r
    ELSE IF r.x.kind = "number" THEN Parsed([r.x EXCEPT !.num = -r.x.num], r.at)
    ELSE Parsed(Expr("sign", 0, r.x, Nil, ""), r.at)

RECURSIVE Exponentiation(_, _), Factor(_, _), TermLoop(_, _), Term(_, _),
          ExpLoop(_, _), Exp(_, _)

\* Parser::Exponentiation
Exponentiation(tokens, at) ==
    LET Closed(r) ==
            IF r.ok /\ Sym(tokens, r.at) = ")" THEN Parsed(r.x, r.at + 1)
            ELSE Invalid
    IN IF Sym(tokens, at) = "-" THEN Negated(Exponentiation(tokens, at + 1))
       ELSE IF Sym(tokens, at) = "1" THEN Parsed(Number(1), at + 1)
       ELSE IF Sym(tokens, at) = "2" THEN Parsed(Number(2), at + 1)
       ELSE IF Sym(tokens, at) = "t"
       THEN Parsed(Expr("id", 0, Nil, Nil, "t"), at + 1)
       ELSE IF Sym(tokens, at) = "(" THEN Closed(Exp(tokens, at + 1))
       ELSE Invalid

\* Parser::Factor, no power among the tokens
Factor(tokens, at) == Exponentiation(tokens, at)

\* while (sym == times)
TermLoop(tokens, r) ==
    LET With(y) ==
            IF ~y.ok THEN y
            ELSE TermLoop(tokens, Parsed(Binary("times", r.x, y.x), y.at))
    IN IF ~r.ok \/ Sym(tokens, r.at) # "*" THEN r
       ELSE With(Factor(tokens, r.at + 1))

\* Parser::Term
Term(tokens, at) == TermLoop(tokens, Factor(tokens, at))

\* while (sym == plus || sym == minus)
ExpLoop(tokens, r) ==
    LET With(kind, y) ==
            IF ~y.ok THEN y
            ELSE ExpLoop(tokens, Parsed(Binary(kind, r.x, y.x), y.at))
    IN IF ~r.ok \/ Sym(tokens, r.at) \notin {"+", "-"} THEN r
       ELSE With(IF Sym(tokens, r.at) = "+" THEN "plus" ELSE "minus",
                 Term(tokens, r.at + 1))

\* Parser::Exp
Exp(tokens, at) ==
    ExpLoop(tokens, IF Sym(tokens, at) = "-" THEN Negated(Term(tokens, at + 1))
                    ELSE Term(tokens, at))

\* what RewriteExpr ends in when an identifier has no binding: exprMap[id] is
\* a null pointer and it is dereferenced
Unbound == [kind |-> "undefined"]

RECURSIVE CloneExpr(_, _)
\* the expression with its identifiers replaced, nothing folded
CloneExpr(expr, exprMap) ==
    LET With(op1, op2) ==
            IF Unbound \in {op1, op2} THEN Unbound
            ELSE IF expr.kind = "id"
            THEN IF expr.id \in DOMAIN exprMap THEN exprMap[expr.id] ELSE Unbound
            ELSE Expr(expr.kind, expr.num, op1, op2, expr.id)
    IN IF expr = Nil THEN Nil
       ELSE With(CloneExpr(expr.op1, exprMap), CloneExpr(expr.op2, exprMap))

RECURSIVE RewriteExpr(_, _)
\* Parser::RewriteExpr
RewriteExpr(expr, exprMap) ==
    LET With(op1, op2) ==
            IF Unbound \in {op1, op2} THEN Unbound
            ELSE IF expr.kind \in {"plus", "minus", "times"}
                    /\ op1.kind = "number" /\ op2.kind = "number"
            THEN [op1 EXCEPT !.num = Arith(expr.kind, op1.num, op2.num)]
            ELSE IF expr.kind = "sign" /\ op1.kind = "number"
            THEN [op1 EXCEPT !.num = -op1.num]
            ELSE IF expr.kind = "id"
            THEN IF expr.id \in DOMAIN exprMap THEN exprMap[expr.id] ELSE Unbound
            ELSE Expr(expr.kind, expr.num, op1, op2, expr.id)
    IN IF expr = Nil THEN Nil
       ELSE With(RewriteExpr(expr.op1, exprMap), RewriteExpr(expr.op2, exprMap))

ExpTokens == {"1", "2", "t", "+", "-", "*", "(", ")"}
TokenLists == UNION {[1..n -> ExpTokens] : n \in 1..MaxTokens}

\* the expressions the parameter t of a gate is bound to
ExprMaps ==
    {EmptyMap, "t" :> Number(2), "t" :> Expr("id", 0, Nil, Nil, "s"),
     "t" :> Expr("plus", 0, Expr("id", 0, Nil, Nil, "s"), Number(1), "")}

\* the parser is at an expression of a gate body; exprMap is the paramMap of
\* the application the body is rewritten for
InitExp ==
    /\ nqubits = 0 /\ nancillae = 0 /\ nclassics = 0
    /\ qregs = EmptyMap /\ cregs = EmptyMap /\ ancregs = EmptyMap
    /\ initialLayout = EmptyMap /\ outputPermutation = EmptyMap
    /\ ancillary = {} /\ garbage = {}
    /\ ops = <<>>
    /\ mode = "qasm"
    /\ varMap = EmptyMap
    /\ last = Call("import", "running", <<"qasm">>)
    /\ ncalls = 0
    /\ \E tokens \in TokenLists, exprMap \in ExprMaps :
          run = [kind |-> "exp", tokens |-> tokens, exprMap |-> exprMap,
                 pc |-> "tokens", expr |-> Nil]

InExp(pc) == run.kind = "exp" /\ run.pc = pc

\* Exp() is called on the tokens
ExpCall ==
    /\ InExp("tokens")
    /\ LET Result(r) ==
               run' = [run EXCEPT !.pc = IF r.ok THEN "parsed" ELSE "error",
                                  !.expr = r.x]
       IN Result(Exp(run.tokens, 1))
    /\ UNCHANGED object

\* RewriteExpr() is called on the expression parsed
RewriteCall ==
    /\ InExp("parsed")
    /\ LET Result(x) ==
               run' = [run EXCEPT
                         !.pc = IF x = Unbound THEN "undefined" ELSE "rewritten",
                         !.expr = IF x = Unbound THEN Nil ELSE x]
       IN Result(RewriteExpr(run.expr, run.exprMap))
    /\ UNCHANGED object

NextExp == ExpCall \/ RewriteCall

SpecExp == InitExp /\ [][NextExp]_vars

RECURSIVE NoConstantNode(_)
\* no operator node of the tree has number literals for all its operands
NoConstantNode(expr) ==
    \/ expr = Nil
    \/ /\ NoConstantNode(expr.op1) /\ NoConstantNode(expr.op2)
       /\ expr.kind \in {"number", "id"}
            \/ \E op \in {expr.op1, expr.op2} \ {Nil} : op.kind # "number"

\* C27: an expression tree returned by Exp or by RewriteExpr has no operator
\* node all of whose operands are number literals; an expression without
\* identifiers, and a rewritten one whose identifiers are bound to literals,
\* is a single number node
C27_ConstantsFolded ==
    (InExp("parsed") \/ InExp("rewritten"))
       => /\ NoConstantNode(run.expr)
          /\ (\A i \in 1..Len(run.tokens) : run.tokens[i] # "t")
                => run.expr.kind = "number"
          /\ (/\ InExp("rewritten")
              /\ "t" \in DOMAIN run.exprMap
              /\ run.exprMap["t"].kind = "number")
                => run.expr.kind = "number"

\* "t * 2 - 1" was parsed and rewritten with t bound to 2
C27_BoundToLiteral ==
    /\ InExp("rewritten")
    /\ run.tokens = <<"t", "*", "2", "-", "1">>
    /\ run.exprMap = ("t" :> Number(2))
    /\ run.expr = Number(3)

-----------------------------------------------------------------------------
(* reduceAncillae(e, dd, varMap) on the nodes of a decision diagram.  An    *)
(* edge is the node it points to, a node its variable and its four         *)
(* successors e[0], e[1], e[2], e[3] (here 1..4); weights other than zero  *)
(* are left out.  Equal nodes are one node, as in the unique table.        *)

\* dd::Package::DDzero and the terminal with weight one
TerminalZero == [v |-> -1, w |-> 0]
TerminalOne == [v |-> -1, w |-> 1]

\* dd->isTerminal(e)
isTerminal(edge) == edge.v = -1

\* dd->makeNonterminal(v, edges)
makeNonterminal(v, edges) == [v |-> v, e |-> edges]

\* the nodes of variable 0, and the diagrams of two variables over them
NodesBelow ==
    {makeNonterminal(0, <<TerminalOne, TerminalZero, TerminalZero, TerminalOne>>),
     makeNonterminal(0, <<TerminalZero, TerminalOne, TerminalOne, TerminalZero>>),
     makeNonterminal(0, <<TerminalOne, TerminalOne, TerminalOne, TerminalOne>>)}
Diagrams ==
    {makeNonterminal(1, edges) :
        edges \in [1..4 -> NodesBelow \cup {TerminalZero}] \ {[i \in 1..4 |-> TerminalZero]}}

\* reduceAncillae(e, dd, varMap) is entered: q holds e
InitReduce ==
    /\ \E n \in 0..2 : nqubits = n /\ nancillae = 2 - n
    /\ nclassics = 0
    /\ qregs = EmptyMap /\ cregs = EmptyMap /\ ancregs = EmptyMap
    /\ initialLayout = EmptyMap /\ outputPermutation = EmptyMap
    /\ ancillary = {} /\ garbage = {}
    /\ ops = <<>>
    /\ mode = "idle"
    /\ varMap = EmptyMap
    /\ last = Call("buildFunctionality", "running", <<>>)
    /\ ncalls = 0
    /\ \E e \in Diagrams, vm \in Reorderings(2) :
          run = [kind |-> "reduce", e |-> e, vmap |-> vm, q |-> <<e>>,
                 nodes |-> {}, made |-> {}, pc |-> "queue"]

InReduce(pc) == run.kind = "reduce" /\ run.pc = pc

\* the edge the loop goes on with: the test reads the variable of e, the
\* new node is held by the local edge only
ReducedEdge(r, edge, n) ==
    IF r.vmap[r.e.v] >= n
    THEN makeNonterminal(edge.v, <<edge.e[1], TerminalZero, edge.e[3], TerminalZero>>)
    ELSE edge

RECURSIVE Enqueue(_, _, _)
\* for (i < NEDGE): a nonterminal successor not yet in nodes is pushed
Enqueue(r, edge, i) ==
    IF i > 4 THEN r
    ELSE IF isTerminal(edge.e[i]) \/ edge.e[i] \in r.nodes
    THEN Enqueue(r, edge, i + 1)
    ELSE Enqueue([r EXCEPT !.nodes = r.nodes \cup {edge.e[i]},
                           !.q = Append(r.q, edge.e[i])], edge, i + 1)

\* one turn of while (!q.empty())
ReduceVisit ==
    /\ InReduce("queue") /\ run.q # <<>>
    /\ LET Go(edge) ==
               run' = Enqueue([run EXCEPT
                                 !.q = Tail(run.q),
                                 !.made = IF edge = Head(run.q) THEN run.made
                                          ELSE run.made \cup {edge}],
                              edge, 1)
       IN Go(ReducedEdge(run, Head(run.q), nqubits))
    /\ UNCHANGED object

\* dd->garbageCollect() and the return
ReduceReturn ==
    /\ InReduce("queue") /\ run.q = <<>>
    /\ run' = [run EXCEPT !.pc = "done"]
    /\ UNCHANGED object

NextReduce == ReduceVisit \/ ReduceReturn

SpecReduce == InitReduce /\ [][NextReduce]_vars

RECURSIVE NodesFrom(_)
\* the nodes of the diagram reachable from an edge
NodesFrom(edge) ==
    IF isTerminal(edge) THEN {}
    ELSE {edge} \cup UNION {NodesFrom(edge.e[i]) : i \in 1..4}

\* C28: when reduceAncillae(e, dd, varMap) has returned, every node reachable
\* from e whose own variable v has varMap[v] >= nqubits has its [01] and [11]
\* successors zero
C28_AncillaryNodesReduced ==
    InReduce("done")
       => \A node \in NodesFrom(run.e) :
             run.vmap[node.v] >= nqubits
                => node.e[2] = TerminalZero /\ node.e[4] = TerminalZero

-----------------------------------------------------------------------------
(* removeQubit and the layouts *)

\* the step is the call removeQubit(logical) on an idle object
RemoveCalledWith(logical) ==
    LET Is(out) ==
            /\ last' = Call("removeQubit", out.status, out.ret)
            /\ initialLayout' = out.c.initialLayout
            /\ outputPermutation' = out.c.outputPermutation
            /\ qregs' = out.c.qregs /\ ancregs' = out.c.ancregs
            /\ nqubits' = out.c.nqubits /\ nancillae' = out.c.nancillae
    IN /\ ncalls' = ncalls + 1
       /\ Is(removeQubit(Circuit, logical))

\* the physical indices that hold a logical index
HoldersOf(layout, logical) == {p \in DOMAIN layout : layout[p] = logical}

\* C29: removeQubit(l) that returns erases from initialLayout and
\* outputPermutation only the physical index p it returns, initialLayout[p]
\* was l, the second value returned is the output mapping p had (-1: none)
\* and every other layout entry stays; when no physical index holds l, no
\* qubit is removed: registers, counters and layouts stay as they are
C29_RemoveErasesHolder ==
    [][mode = "idle" =>
         \A l \in Logicals :
            RemoveCalledWith(l) =>
               /\ (HoldersOf(initialLayout, l) # {} /\ last'.status = "ok")
                     => /\ last'.ret[1] \in HoldersOf(initialLayout, l)
                        /\ last'.ret[2] = IF last'.ret[1] \in DOMAIN outputPermutation
                                          THEN outputPermutation[last'.ret[1]]
                                          ELSE -1
                        /\ initialLayout' = MapErase(initialLayout, last'.ret[1])
                        /\ outputPermutation'
                              = MapErase(outputPermutation, last'.ret[1])
               /\ HoldersOf(initialLayout, l) = {}
                     => UNCHANGED <<qregs, ancregs, nqubits, nancillae,
                                    initialLayout, outputPermutation>>]_vars

-----------------------------------------------------------------------------
(* Counts *)

\* C30: after every import and circuit edit initialLayout has
\* nqubits + nancillae entries and the ancillary bitset has nancillae bits set
C30_CountsConsistent ==
    (mode = "idle" /\ last.status = "ok")
       => /\ Cardinality(DOMAIN initialLayout) = nqubits + nancillae
          /\ Cardinality(ancillary) = nancillae

=============================================================================
